----------------------------- MODULE GemFSProofs -----------------------------
(***************************************************************************)
(* The file system keeps its blocks apart, for every size of disk, of        *)
(* programs and of buffers, wherever the power fails during the format and   *)
(* whatever programs open, read and write afterwards.                        *)
(***************************************************************************)
EXTENDS GemFS, SequenceTheorems, WellFoundedInduction, TLAPS

----------------------------------------------------------------------------
(* Where the format puts things                                            *)

Calls == 1 .. 9

\* The first free block when the call begins: a call takes the blocks of its
\* file, one for the entry and one that is never used.
Base ==
  << 6, 8, 10, 12, 14, 16, 18 + PROGRAM_SIZE, 20 + 2 * PROGRAM_SIZE,
     22 + 3 * PROGRAM_SIZE >>

\* The block of entry i, which the i-th call makes.
EntryBlock(i) == Base[i] + Layout[i].size

----------------------------------------------------------------------------
(* The invariant                                                           *)

EntryType ==
  [used : BOOLEAN, dir : BOOLEAN, start : Block, size : 0 .. PROGRAM_SIZE,
   index : Nat, parent : Nat, sibling : Nat, name : Names, data : Data]

StateInv ==
  /\ disk \in [Block -> EntryType]
  /\ chain \in Seq(Block)
  /\ at \in [call : Calls, k : Nat, free : 0 .. LastEntry, start : Block, block : Block]
  /\ made \in Seq(1 .. LastEntry)
  /\ fd \in {NotFound} \cup 0 .. LastEntry
  /\ bounce \in [1 .. BOUNCE -> Data]

\* The entries are where the format puts them; up to the last one everything
\* is marked, and what is not marked was never written.
ChainInv ==
  /\ LastEntry <= 9
  /\ \A i \in 1 .. LastEntry : chain[i] = EntryBlock(i) /\ 0 .. EntryBlock(i) \subseteq fbb
  /\ fbb \subseteq 0 .. Limit - 1
  /\ \A b \in 6 .. Limit - 1 : b \notin fbb => disk[b] = Zeros

\* An entry that was appended and not yet written.
Raw(e) ==
  /\ ~e.used /\ ~e.dir /\ e.start = 0 /\ e.size = 0 /\ e.sibling \in {0, 1}
  /\ e.name = ""

\* An entry that mkdir or CreateFile wrote: a directory leads to its first child,
\* a file has no blocks yet, or those that were marked for it, or its home.
Finished(e, i) ==
  /\ e.used /\ e.dir = Layout[i].dir /\ e.name = Layout[i].name
  /\ e.index = i
  /\ e.sibling # 0 => e.sibling \in i + 1 .. LastEntry
  /\ e.dir => e.size = 0 /\ e.start \in 0 .. LastEntry
  /\ ~e.dir => \/ e.size = 0 /\ e.start = 0
               \/ /\ e.size = Layout[i].size
                  /\ \/ e.start = Base[i]
                     \/ Layout[i].home # 0 /\ e.start = Layout[i].home

EntriesInv ==
  \A i \in 1 .. LastEntry :
    \/ Raw(ReadEntry(i)) /\ ReadEntry(i).index \in {0, i}
    \/ Finished(ReadEntry(i), i)

\* Nothing was written yet.
Pristine ==
  /\ pc \in {"off", "main"}
  /\ disk = Image /\ chain = <<>> /\ fbb = {} /\ at = Start(1) /\ made = <<>>

RootInv ==
  \/ Pristine
  \/ /\ pc # "main"
     /\ \E s \in 0 .. LastEntry : disk[1] = [MainEntry EXCEPT !.start = s]

\* No entry before the one that is being made leads to it.
Unlinked ==
  /\ disk[1].start < at.call
  /\ \A i \in 1 .. at.call - 1 : ReadEntry(i).sibling < at.call
  /\ \A i \in 1 .. at.call - 1 : Layout[i].dir => ReadEntry(i).start < at.call

\* The calls before the current one are done, each made the entry of its number.
CallsDone ==
  /\ Len(made) = at.call - 1
  /\ \A i \in 1 .. at.call - 1 :
       made[i] = i /\ i <= LastEntry /\ Finished(ReadEntry(i), i)

\* The blocks below m are marked and no others.
MarkedBelow(m) == fbb = 0 .. m - 1

ReserveInv ==
  pc = "reserve" => /\ at = [Start(1) EXCEPT !.k = at.k] /\ at.k \in 0 .. 5
                    /\ MarkedBelow(at.k)
                    /\ chain = <<>> /\ made = <<>> /\ disk[1] = MainEntry

DataInv ==
  pc = "data" => /\ ~Call.dir /\ at.k < Call.size
                 /\ at.k > 0 => at.start = Base[at.call]
                 /\ MarkedBelow(Base[at.call] + at.k)

FindInv ==
  pc = "find" => \/ /\ LastEntry = at.call - 1
                    /\ MarkedBelow(EntryBlock(at.call))
                 \/ /\ LastEntry = at.call
                    /\ MarkedBelow(EntryBlock(at.call) + 1)

LinkInv ==
  pc \in {"link", "blank"} => /\ at.block = EntryBlock(at.call)
                              /\ disk[at.block] = Zeros
                              /\ MarkedBelow(EntryBlock(at.call) + 1)

WriteInv ==
  pc \in {"sibling", "entry", "parent", "start", "home", "message"} =>
    /\ at.free = at.call
    /\ MarkedBelow(EntryBlock(at.call) + 2)
    /\ pc = "sibling" => ReadEntry(ParentIndex).start # 0
    /\ pc \in {"start", "home", "message"} => ~Call.dir
    /\ pc = "home" => Call.home # 0
    /\ pc = "message" => Call.home = 0

\* How far the current call has come.
CallInv ==
  pc \notin {"off", "main", "reserve", "serve", "hung"} =>
    /\ CallsDone
    /\ pc \in {"data", "find", "link", "blank", "sibling"} => Unlinked
    /\ pc \in {"data", "link"} => LastEntry = at.call - 1
    /\ pc \in {"blank", "sibling", "entry", "parent", "start", "home", "message"}
         => LastEntry = at.call
    /\ pc \in {"find", "sibling", "entry"} /\ LastEntry = at.call
         => Raw(ReadEntry(at.call)) /\ ReadEntry(at.call).index = at.call
    /\ pc \in {"parent", "start", "home", "message"}
         => Finished(ReadEntry(at.call), at.call)
    /\ pc \in {"parent", "start"} => /\ ReadEntry(at.call).start = 0
                                     /\ ReadEntry(at.call).size = 0
    /\ pc \in {"home", "message"} => /\ ReadEntry(at.call).start = Base[at.call]
                                     /\ ReadEntry(at.call).size = Call.size
    /\ pc # "data" /\ ~Call.dir => at.start = Base[at.call]

RestInv == pc \in {"off", "serve", "hung"} => at = Start(1)

PcInv ==
  pc \in {"off", "main", "reserve", "data", "find", "link", "blank", "sibling",
          "entry", "parent", "start", "home", "message", "serve", "hung"}

GemInv ==
  /\ StateInv /\ ChainInv /\ EntriesInv /\ RootInv /\ ReserveInv /\ DataInv
  /\ FindInv /\ LinkInv /\ WriteInv /\ CallInv /\ RestInv /\ PcInv

----------------------------------------------------------------------------
(* Induction                                                               *)

\* A set of numbers that is not empty has a smallest one.
LEMMA Smallest ==
  ASSUME NEW T \in SUBSET Nat, T # {}
  PROVE  \E x \in T : \A y \in T : x <= y
<1> DEFINE R == {ss \in Nat \X Nat : ss[1] < ss[2]}
<1>1. IsWellFoundedOn(R, Nat)
  BY NatLessThanWellFounded DEF OpToRel
<1>2. PICK x \in T : \A y \in T : ~(<<y, x>> \in R)
  <2> HIDE DEF R
  <2> QED
    BY <1>1, WFMin
<1>3. ASSUME NEW y \in T PROVE x <= y
  <2>1. ~(y < x)
    BY <1>2
  <2> QED
    BY <2>1
<1> QED
  BY <1>3

\* So a set that has 0, and each number up to n whose predecessor it has, has all.
LEMMA Induction ==
  ASSUME NEW n \in Nat, NEW S, 0 \in S,
         \A k \in 1 .. n : k - 1 \in S => k \in S
  PROVE  \A k \in 0 .. n : k \in S
<1> DEFINE T == {k \in 0 .. n : k \notin S}
<1> SUFFICES ASSUME T # {} PROVE FALSE
  OBVIOUS
<1>1. PICK x \in T : \A y \in T : x <= y
  <2>1. T \in SUBSET Nat
    OBVIOUS
  <2> HIDE DEF T
  <2> QED
    BY <2>1, Smallest
<1>2. x \in 1 .. n /\ x - 1 \in 0 .. n /\ ~(x <= x - 1)
  OBVIOUS
<1>3. x - 1 \in S
  BY <1>1, <1>2
<1> QED
  BY <1>2, <1>3

\* A function defined from its value one argument before.
Iterates(w, n, s, next) ==
  w = [k \in 0 .. n |-> IF k = 0 THEN s ELSE next[k][w[k - 1]]]

\* There is one.
LEMMA IterateExists ==
  ASSUME NEW n \in Nat, NEW s, NEW next
  PROVE  \E w : Iterates(w, n, s, next)
<1> DEFINE S == {k \in 0 .. n : \E w : Iterates(w, k, s, next)}
<1>1. 0 \in S
  <2> DEFINE w == [k \in 0 .. 0 |-> s]
  <2>1. Iterates(w, 0, s, next)
    BY DEF Iterates
  <2> QED
    BY <2>1
<1>2. ASSUME NEW m \in 1 .. n, m - 1 \in S
      PROVE  m \in S
  <2>1. PICK w : Iterates(w, m - 1, s, next)
    BY <1>2
  <2> DEFINE v == [k \in 0 .. m |-> IF k = m THEN next[m][w[m - 1]] ELSE w[k]]
  <2>2. ASSUME NEW k \in 0 .. m
        PROVE  v[k] = IF k = 0 THEN s ELSE next[k][v[k - 1]]
    <3>1. CASE k = m
      BY <3>1
    <3>2. CASE k = 0 /\ k # m
      BY <2>1, <3>2 DEF Iterates
    <3>3. CASE k # m /\ k # 0
      <4>1. k \in 0 .. m - 1 /\ k - 1 \in 0 .. m /\ k - 1 # m
        BY <3>3
      <4>2. w[k] = next[k][w[k - 1]]
        BY <2>1, <3>3, <4>1 DEF Iterates
      <4> QED
        BY <3>3, <4>1, <4>2
    <3> QED
      BY <3>1, <3>2, <3>3
  <2>3. v = [k \in 0 .. m |-> v[k]]
    OBVIOUS
  <2>4. Iterates(v, m, s, next)
    <3> HIDE DEF v
    <3> QED
      BY <2>2, <2>3 DEF Iterates
  <2>5. \E x : Iterates(x, m, s, next)
    <3> HIDE DEF v
    <3> QED
      BY <2>4
  <2> QED
    BY <1>2, <2>5
<1>3. \A k \in 0 .. n : k \in S
  <2> HIDE DEF S
  <2> QED
    BY <1>1, <1>2, Induction
<1> QED
  BY <1>3

----------------------------------------------------------------------------
(* The layout                                                              *)

\* The nine calls.
LEMMA LayoutCalls ==
  /\ Len(Layout) = 9
  /\ Layout[1] = Dir("dev", 0) /\ Layout[2] = Dir("zero", 1)
  /\ Layout[3] = Dir("urand", 1) /\ Layout[4] = Dir("etc", 0)
  /\ Layout[5] = Dir("bin", 0)
  /\ Layout[6] = File("shell.elf", 5, PROGRAM_SIZE, Shell)
  /\ Layout[7] = File("hello_world.elf", 5, PROGRAM_SIZE, Hello)
  /\ Layout[8] = File("chudedit.elf", 5, PROGRAM_SIZE, ChudEdit)
  /\ Layout[9] = File("boot_msg.txt", 4, 1, 0)
BY DEF Layout

\* What the calls of GemFS_FormatPartition make.
LEMMA LayoutFacts ==
  ASSUME NEW i \in Calls
  PROVE  /\ i <= 5 => Layout[i].dir = TRUE
         /\ i > 5 => Layout[i].dir = FALSE
         /\ Layout[i].size = IF i <= 5 THEN 0 ELSE IF i = 9 THEN 1 ELSE PROGRAM_SIZE
         /\ i \notin 6 .. 8 => Layout[i].home = 0
         /\ i \in 6 .. 8 => Layout[i].home \in {Shell, Hello, ChudEdit}
         /\ Layout[i].parent \in 0 .. 5 /\ Layout[i].parent < i
         /\ Layout[i].name \in Names
<1>1. Layout[i].name \in Names
  BY LayoutCalls DEF Names, Calls
<1>2. CASE i \in 1 .. 5
  <2>1. \E parent \in 0 .. 5 : parent < i /\ \E name : Layout[i] = Dir(name, parent)
    BY <1>2, LayoutCalls
  <2> QED
    BY <1>1, <1>2, <2>1 DEF Dir
<1>3. CASE i \in 6 .. 8
  <2>1. \E home \in {Shell, Hello, ChudEdit} :
          \E name : Layout[i] = File(name, 5, PROGRAM_SIZE, home)
    BY <1>3, LayoutCalls
  <2> QED
    BY <1>1, <1>3, <2>1 DEF File
<1>4. CASE i = 9
  BY <1>1, <1>4, LayoutCalls DEF File
<1>5. i \in 1 .. 5 \/ i \in 6 .. 8 \/ i = 9
  BY DEF Calls
<1> QED
  BY <1>2, <1>3, <1>4, <1>5

\* A directory takes no block for data, a file at least one.
LEMMA SizeFacts ==
  ASSUME NEW i \in Calls
  PROVE  /\ Layout[i].size \in 0 .. PROGRAM_SIZE
         /\ Layout[i].dir \in BOOLEAN
         /\ Layout[i].dir => Layout[i].size = 0 /\ Layout[i].home = 0
         /\ ~Layout[i].dir => Layout[i].size >= 1
         /\ Layout[i].home # 0 => Layout[i].size = PROGRAM_SIZE /\ i \in 6 .. 8
<1>1. PROGRAM_SIZE \in Nat /\ PROGRAM_SIZE >= 1
  BY GemFSAssumption
<1>2. Layout[i].size = IF i <= 5 THEN 0 ELSE IF i = 9 THEN 1 ELSE PROGRAM_SIZE
  BY LayoutFacts
<1>3. Layout[i].size \in 0 .. PROGRAM_SIZE
  BY <1>1, <1>2
<1>4. Layout[i].dir \in BOOLEAN /\ (Layout[i].dir => i <= 5) /\ (~Layout[i].dir => ~(i <= 5))
  <2>1. CASE i <= 5
    <3>1. Layout[i].dir = TRUE
      BY <2>1, LayoutFacts
    <3> QED
      BY <2>1, <3>1
  <2>2. CASE ~(i <= 5)
    <3>1. i > 5
      BY <2>2 DEF Calls
    <3>2. Layout[i].dir = FALSE
      BY <3>1, LayoutFacts
    <3> QED
      BY <2>2, <3>2
  <2> QED
    BY <2>1, <2>2
<1>5. i <= 5 => i \notin 6 .. 8
  BY DEF Calls
<1>6. i \notin 6 .. 8 => Layout[i].home = 0
  BY LayoutFacts
<1>7. i \in 6 .. 8 => Layout[i].size = PROGRAM_SIZE
  BY <1>2
<1>8. ~(i <= 5) => Layout[i].size >= 1
  BY <1>1, <1>2
<1>9. i <= 5 => Layout[i].size = 0
  BY <1>2
<1> QED
  BY <1>3, <1>4, <1>5, <1>6, <1>7, <1>8, <1>9

\* The first free block at the nine calls.
LEMMA BaseFacts ==
  /\ Base[1] = 6 /\ Base[2] = 8 /\ Base[3] = 10 /\ Base[4] = 12 /\ Base[5] = 14
  /\ Base[6] = 16 /\ Base[7] = 18 + PROGRAM_SIZE /\ Base[8] = 20 + 2 * PROGRAM_SIZE
  /\ Base[9] = 22 + 3 * PROGRAM_SIZE
BY DEF Base

\* A call begins where the one before it ended.
LEMMA BaseNext ==
  /\ Base[1] = 6
  /\ \A i \in Calls : Base[i] \in Nat
  /\ \A i \in 1 .. 8 : Base[i + 1] = EntryBlock(i) + 2
  /\ EntryBlock(9) + 2 = Limit
<1>1. \A i \in Calls : Base[i] \in Nat
  BY BaseFacts, GemFSAssumption DEF Calls
<1>2. ASSUME NEW i \in 1 .. 8
      PROVE  Base[i + 1] = EntryBlock(i) + 2
  <2>1. i \in Calls
    BY DEF Calls
  <2>2. Layout[i].size = IF i <= 5 THEN 0 ELSE IF i = 9 THEN 1 ELSE PROGRAM_SIZE
    BY <2>1, LayoutFacts
  <2>3. CASE i \in 1 .. 5
    BY <2>2, <2>3, BaseFacts DEF EntryBlock
  <2>4. CASE i \in 6 .. 8
    <3>1. i = 6 \/ i = 7 \/ i = 8
      BY <2>4
    <3> QED
      BY <2>2, <3>1, BaseFacts, GemFSAssumption DEF EntryBlock
  <2> QED
    BY <2>3, <2>4
<1>3. EntryBlock(9) + 2 = Limit
  <2>1. Layout[9].size = 1
    BY LayoutFacts DEF Calls
  <2> QED
    BY <2>1, BaseFacts, GemFSAssumption DEF EntryBlock, Limit
<1> QED
  BY <1>1, <1>2, <1>3, BaseFacts

\* The places of the entries and of the blocks before them.
LEMMA Places ==
  ASSUME NEW i \in Calls
  PROVE  /\ Base[i] \in Nat /\ 6 <= Base[i]
         /\ EntryBlock(i) = Base[i] + Layout[i].size
         /\ EntryBlock(i) \in Nat /\ Base[i] <= EntryBlock(i)
         /\ EntryBlock(i) + 2 <= Limit /\ Limit \in Nat
         /\ i # 9 => i + 1 \in Calls /\ Base[i + 1] = EntryBlock(i) + 2
         /\ i = 9 => EntryBlock(i) + 2 = Limit
<1>1. Base[i] \in Nat /\ 6 <= Base[i]
  BY BaseFacts, GemFSAssumption DEF Calls
<1>2. EntryBlock(i) = Base[i] + Layout[i].size
  BY DEF EntryBlock
<1>3. Layout[i].size \in Nat
  BY SizeFacts, GemFSAssumption
<1>4. i # 9 => i + 1 \in Calls /\ Base[i + 1] = EntryBlock(i) + 2
  BY BaseNext DEF Calls
<1>5. Limit \in Nat
  BY GemFSAssumption DEF Limit
<1>6. EntryBlock(i) + 2 <= Limit
  <2>1. CASE i = 9
    BY <2>1, <1>5, BaseNext
  <2>2. CASE i # 9
    <3>1. i + 1 \in 2 .. 9
      BY <2>2 DEF Calls
    <3>2. \A j \in 2 .. 9 : Base[j] <= Limit
      BY BaseFacts, GemFSAssumption DEF Limit
    <3> QED
      BY <1>4, <2>2, <3>1, <3>2
  <2> QED
    BY <2>1, <2>2
<1> QED
  BY <1>1, <1>2, <1>3, <1>4, <1>5, <1>6, BaseNext

\* A later call works behind an earlier one.
LEMMA PlacesAscend ==
  ASSUME NEW i \in Calls, NEW j \in Calls, i < j
  PROVE  EntryBlock(i) + 2 <= Base[j]
<1> DEFINE S == {k \in Nat : i + 1 + k > 9 \/ EntryBlock(i) + 2 <= Base[i + 1 + k]}
<1>1. 0 \in S
  BY Places DEF Calls
<1>2. ASSUME NEW k \in 1 .. 9, k - 1 \in S
      PROVE  k \in S
  <2>1. CASE i + 1 + k > 9
    BY <2>1
  <2>2. CASE ~(i + 1 + k > 9)
    <3>1. i + k \in Calls /\ i + k # 9 /\ (i + k) + 1 = i + 1 + k
      BY <2>2 DEF Calls
    <3>2. EntryBlock(i) + 2 <= Base[i + k]
      <4>1. i + 1 + (k - 1) = i + k
        BY DEF Calls
      <4> QED
        BY <1>2, <3>1, <4>1 DEF Calls
    <3>3. Base[i + 1 + k] = EntryBlock(i + k) + 2 /\ Base[i + k] <= EntryBlock(i + k)
          /\ EntryBlock(i + k) \in Nat /\ Base[i + k] \in Nat /\ EntryBlock(i) \in Nat
      BY <3>1, Places
    <3> QED
      BY <3>2, <3>3
  <2> QED
    BY <2>1, <2>2
<1>3. \A k \in 0 .. 9 : k \in S
  <2> HIDE DEF S
  <2> QED
    BY <1>1, <1>2, Induction
<1>4. j - i - 1 \in 0 .. 9 /\ i + 1 + (j - i - 1) = j
  BY DEF Calls
<1>5. j - i - 1 \in S
  BY <1>3, <1>4
<1> QED
  BY <1>4, <1>5 DEF Calls

----------------------------------------------------------------------------
(* What the invariant implies                                              *)

\* The blocks of a file are those that were marked for it, or its home.
LEMMA WhereFilesAre ==
  ASSUME GemInv, NEW i \in 1 .. LastEntry
  PROVE  /\ i \in Calls /\ GetEntryBlock(i) = EntryBlock(i)
         /\ \/ FileBlocks(i) = {}
            \/ /\ FileBlocks(i) = Base[i] .. EntryBlock(i) - 1
               /\ ReadEntry(i).start = Base[i]
            \/ /\ i \in 6 .. 8
               /\ FileBlocks(i) = Extent(Layout[i].home, PROGRAM_SIZE)
               /\ ReadEntry(i).start = Layout[i].home
<1>1. i \in Calls /\ GetEntryBlock(i) = EntryBlock(i)
  <2>1. LastEntry \in Nat
    BY DEF GemInv, StateInv, LastEntry
  <2> QED
    BY <2>1 DEF GemInv, ChainInv, Calls, GetEntryBlock
<1>2. CASE Raw(ReadEntry(i))
  BY <1>1, <1>2 DEF Raw, FileBlocks, IsFile
<1>3. CASE Finished(ReadEntry(i), i)
  <2> DEFINE e == ReadEntry(i)
  <2>1. CASE e.dir \/ e.size = 0
    <3>1. ~IsFile(i)
      BY <1>3, <2>1 DEF Finished, IsFile
    <3> QED
      BY <1>1, <3>1 DEF FileBlocks
  <2>2. CASE ~e.dir /\ e.size # 0
    <3>1. /\ e.size = Layout[i].size
          /\ \/ e.start = Base[i]
             \/ Layout[i].home # 0 /\ e.start = Layout[i].home
      BY <1>3, <2>2 DEF Finished
    <3>2. IsFile(i) \/ FileBlocks(i) = {}
      BY DEF FileBlocks
    <3>3. IsFile(i) => FileBlocks(i) = Extent(e.start, e.size)
      BY DEF FileBlocks
    <3>4. Extent(Base[i], Layout[i].size) = Base[i] .. EntryBlock(i) - 1
      <4>1. Base[i] \in Nat /\ Layout[i].size \in Nat
        BY <1>1, Places, SizeFacts, GemFSAssumption
      <4>2. EntryBlock(i) - 1 = Base[i] + (Layout[i].size - 1)
        BY <4>1 DEF EntryBlock
      <4> QED
        BY <4>2 DEF Extent
    <3>5. Layout[i].home # 0 => Layout[i].size = PROGRAM_SIZE /\ i \in 6 .. 8
      BY <1>1, SizeFacts
    <3> HIDE DEF e
    <3> QED
      BY <1>1, <3>1, <3>2, <3>3, <3>4, <3>5 DEF e
  <2> QED
    BY <2>1, <2>2
<1> QED
  BY <1>2, <1>3 DEF GemInv, EntriesInv

\* Where the blocks of a call and a home are.
LEMMA Apart ==
  ASSUME RoomOnDisk, NEW i \in Calls
  PROVE  /\ \A b \in Base[i] .. EntryBlock(i) - 1 : b \in Nat /\ 6 <= b /\ b < EntryBlock(i)
         /\ i \in 6 .. 8 => \A b \in Extent(Layout[i].home, PROGRAM_SIZE) :
                              b \in Block /\ Limit <= b
<1>1. \A b \in Base[i] .. EntryBlock(i) - 1 : b \in Nat /\ 6 <= b /\ b < EntryBlock(i)
  BY Places
<1>2. ASSUME i \in 6 .. 8, NEW b \in Extent(Layout[i].home, PROGRAM_SIZE)
      PROVE  b \in Block /\ Limit <= b
  <2>1. Layout[i].home \in {Shell, Hello, ChudEdit}
    BY <1>2, LayoutFacts
  <2>2. Layout[i].home \in 6 .. DISK - PROGRAM_SIZE /\ Limit <= Layout[i].home
    BY <1>2, <2>1, GemFSAssumption DEF RoomOnDisk
  <2>3. Limit \in Nat
    BY Places
  <2> QED
    BY <2>2, <2>3, GemFSAssumption DEF Extent, Block
<1> QED
  BY <1>1, <1>2

\* The same, of one block of a file.
LEMMA FileBlockPlace ==
  ASSUME RoomOnDisk, GemInv, NEW i \in 1 .. LastEntry, NEW b \in FileBlocks(i)
  PROVE  /\ b \in Block /\ b \in Nat /\ 6 <= b
         /\ \/ Base[i] <= b /\ b < EntryBlock(i)
            \/ /\ Limit <= b /\ i \in 6 .. 8
               /\ b \in Extent(Layout[i].home, PROGRAM_SIZE)
<1>1. i \in Calls
  BY WhereFilesAre
<1>2. 6 <= Base[i] /\ Base[i] \in Nat /\ Limit \in Nat /\ EntryBlock(i) \in Nat
      /\ EntryBlock(i) + 2 <= Limit /\ 25 <= Limit /\ Limit <= DISK
  BY <1>1, Places, GemFSAssumption DEF RoomOnDisk, Limit
<1>3. CASE b \in Base[i] .. EntryBlock(i) - 1
  BY <1>2, <1>3, GemFSAssumption DEF Block
<1>4. CASE i \in 6 .. 8 /\ b \in Extent(Layout[i].home, PROGRAM_SIZE)
  <2>1. b \in Block /\ Limit <= b
    BY <1>1, <1>4, Apart
  <2> QED
    BY <1>2, <1>4, <2>1, GemFSAssumption DEF Block
<1> QED
  BY <1>3, <1>4, WhereFilesAre

\* No block belongs to two entries.
LEMMA InvNoShared == ASSUME RoomOnDisk, GemInv PROVE NoSharedBlocks
<1>1. ASSUME NEW i \in 1 .. LastEntry, NEW j \in 1 .. LastEntry, i < j
      PROVE  BlocksOf(i) \cap BlocksOf(j) = {}
  <2>1. i \in Calls /\ j \in Calls /\ GetEntryBlock(i) = EntryBlock(i)
        /\ GetEntryBlock(j) = EntryBlock(j)
    BY WhereFilesAre
  <2>2. EntryBlock(i) + 2 <= Base[j] /\ EntryBlock(i) \in Nat /\ EntryBlock(j) \in Nat
        /\ Base[j] <= EntryBlock(j) /\ Base[j] \in Nat /\ Limit \in Nat
        /\ EntryBlock(i) + 2 <= Limit /\ EntryBlock(j) + 2 <= Limit
    BY <1>1, <2>1, Places, PlacesAscend
  <2>3. ASSUME NEW b \in BlocksOf(i)
        PROVE  \/ b \in Nat /\ b <= EntryBlock(i)
               \/ /\ b \in Nat /\ Limit <= b
                  /\ i \in 6 .. 8 /\ b \in Extent(Layout[i].home, PROGRAM_SIZE)
    <3>1. b = EntryBlock(i) \/ b \in FileBlocks(i)
      BY <2>1 DEF BlocksOf
    <3>2. CASE b \in FileBlocks(i)
      BY <2>1, <2>2, <3>2, FileBlockPlace
    <3> QED
      BY <2>2, <3>1, <3>2
  <2>4. ASSUME NEW b \in BlocksOf(j)
        PROVE  \/ b \in Nat /\ b >= Base[j] /\ b < Limit
               \/ /\ b \in Nat /\ Limit <= b
                  /\ j \in 6 .. 8 /\ b \in Extent(Layout[j].home, PROGRAM_SIZE)
    <3>1. b = EntryBlock(j) \/ b \in FileBlocks(j)
      BY <2>1 DEF BlocksOf
    <3>2. CASE b \in FileBlocks(j)
      BY <2>1, <2>2, <3>2, FileBlockPlace
    <3> QED
      BY <2>2, <3>1, <3>2
  <2>5. ASSUME NEW b \in BlocksOf(i), b \in BlocksOf(j)
        PROVE  FALSE
    <3>1. i \in 6 .. 8 /\ b \in Extent(Layout[i].home, PROGRAM_SIZE)
      BY <2>2, <2>3, <2>4, <2>5
    <3>2. j \in 6 .. 8 /\ b \in Extent(Layout[j].home, PROGRAM_SIZE)
      BY <2>2, <2>3, <2>4, <2>5
    <3> QED
      BY <1>1, <3>1, <3>2 DEF RoomOnDisk
  <2> QED
    BY <2>5
<1>2. ASSUME NEW i \in 1 .. LastEntry
      PROVE  /\ BlocksOf(i) \cap 0 .. 5 = {}
             /\ GetEntryBlock(i) \notin FileBlocks(i)
  <2>1. i \in Calls /\ GetEntryBlock(i) = EntryBlock(i)
    BY WhereFilesAre
  <2>2. EntryBlock(i) \in Nat /\ 6 <= EntryBlock(i) /\ Limit \in Nat
        /\ EntryBlock(i) + 2 <= Limit
    BY <2>1, Places
  <2>3. ASSUME NEW b \in FileBlocks(i)
        PROVE  b \in Nat /\ 6 <= b /\ b # EntryBlock(i)
    BY <2>1, <2>2, FileBlockPlace
  <2> QED
    BY <2>1, <2>2, <2>3 DEF BlocksOf
<1>3. \A i, j \in 1 .. LastEntry : i # j => BlocksOf(i) \cap BlocksOf(j) = {}
  <2>1. ASSUME NEW i \in 1 .. LastEntry, NEW j \in 1 .. LastEntry, i # j
        PROVE  BlocksOf(i) \cap BlocksOf(j) = {}
    <3>1. i < j \/ j < i
      BY <2>1
    <3> QED
      BY <1>1, <3>1
  <2> QED
    BY <2>1
<1> QED
  BY <1>2, <1>3 DEF NoSharedBlocks

\* Every block in use is marked.
LEMMA InvMarked == ASSUME RoomOnDisk, GemInv PROVE UsedBlocksMarked
<1> SUFFICES ASSUME NEW i \in 1 .. LastEntry
             PROVE  /\ GetEntryBlock(i) \in fbb
                    /\ IsFile(i) /\ ReadEntry(i).start \notin {Shell, Hello, ChudEdit}
                         => FileBlocks(i) \subseteq fbb
  BY DEF UsedBlocksMarked
<1>1. i \in Calls /\ GetEntryBlock(i) = EntryBlock(i)
  BY WhereFilesAre
<1>2. 0 .. EntryBlock(i) \subseteq fbb
  BY DEF GemInv, ChainInv
<1>3. EntryBlock(i) \in Nat
  BY <1>1, Places
<1>4. EntryBlock(i) \in fbb /\ Base[i] .. EntryBlock(i) - 1 \subseteq fbb
  BY <1>1, <1>2, <1>3, Places
<1>5. ASSUME ReadEntry(i).start \notin {Shell, Hello, ChudEdit}
      PROVE  FileBlocks(i) \subseteq fbb
  <2>1. i \in 6 .. 8 => ReadEntry(i).start # Layout[i].home
    BY <1>1, <1>5, LayoutFacts
  <2> QED
    BY <1>4, <2>1, WhereFilesAre
<1> QED
  BY <1>1, <1>4, <1>5

\* Types.
LEMMA InvTypeOK == ASSUME RoomOnDisk, GemInv PROVE GemTypeOK
<1>1. fbb \subseteq 0 .. BLOCKS - 1
  <2>1. Limit \in Nat
    BY Places DEF Calls
  <2> QED
    BY <2>1, GemFSAssumption DEF GemInv, ChainInv, RoomOnDisk
<1>2. at.call \in 1 .. Len(Layout) /\ at.free \in 0 .. LastEntry
      /\ at.start \in Block /\ at.block \in Block
  BY LayoutCalls DEF GemInv, StateInv, Calls
<1> QED
  BY <1>1, <1>2 DEF GemTypeOK, GemInv, StateInv, EntryType, PcInv

----------------------------------------------------------------------------
(* The image and the bitmap                                                *)

\* A block of zeros is an entry.
LEMMA ZerosType == Zeros \in EntryType
<1>1. 0 \in Block
  BY GemFSAssumption DEF Block
<1> QED
  BY <1>1, GemFSAssumption DEF Zeros, EntryType, Names, Data

\* The formatter's blocks are zeros in the image.
LEMMA ImageFacts ==
  ASSUME RoomOnDisk
  PROVE  /\ Image \in [Block -> EntryType]
         /\ \A b \in 0 .. Limit - 1 : Image[b] = Zeros
<1> DEFINE Here(b) == {k \in 1 .. Len(Layout) :
                         Layout[k].home # 0
                         /\ b \in Extent(Layout[k].home, Layout[k].size)}
<1>1. Zeros \in EntryType
  BY ZerosType
<1>2. ASSUME NEW b \in Block, Here(b) # {}
      PROVE  [Zeros EXCEPT !.data = Layout[CHOOSE k \in Here(b) : TRUE].name] \in EntryType
  <2> DEFINE k == CHOOSE x \in Here(b) : TRUE
  <2>1. k \in Here(b)
    <3> HIDE DEF Here
    <3> QED
      BY <1>2
  <2>2. k \in Calls
    <3>1. Here(b) \subseteq 1 .. Len(Layout)
      OBVIOUS
    <3> HIDE DEF Here, k
    <3> QED
      BY <2>1, <3>1, LayoutCalls DEF Calls
  <2> HIDE DEF k
  <2>3. Layout[k].name \in Data
    BY <2>2, LayoutFacts DEF Data
  <2>4. [Zeros EXCEPT !.data = Layout[k].name] \in EntryType
    BY <1>1, <2>3 DEF EntryType
  <2> QED
    BY <2>4 DEF k
<1>3. ASSUME NEW b \in 0 .. Limit - 1
      PROVE  b \in Block /\ Here(b) = {}
  <2>1. b \in Block
    BY GemFSAssumption DEF RoomOnDisk, Block, Limit
  <2>2. ASSUME NEW k \in 1 .. Len(Layout), Layout[k].home # 0,
               b \in Extent(Layout[k].home, Layout[k].size)
        PROVE  FALSE
    <3>1. k \in Calls
      BY LayoutCalls DEF Calls
    <3>2. k \in 6 .. 8 /\ Layout[k].size = PROGRAM_SIZE
      BY <2>2, <3>1, SizeFacts
    <3>3. Limit <= b /\ Limit \in Nat
      BY <2>2, <3>1, <3>2, Apart, Places
    <3> QED
      BY <3>3
  <2> QED
    BY <2>1, <2>2
<1>4. Image = [b \in Block |-> IF Here(b) = {} THEN Zeros
                 ELSE [Zeros EXCEPT !.data = Layout[CHOOSE k \in Here(b) : TRUE].name]]
  BY DEF Image
<1> HIDE DEF Here
<1>5. Image \in [Block -> EntryType]
  BY <1>1, <1>2, <1>4
<1> QED
  BY <1>3, <1>4, <1>5

\* The scan finds the block behind the marked ones.
LEMMA FreeBlockFound ==
  ASSUME NEW m \in Nat, m < BLOCKS, MarkedBelow(m)
  PROVE  FindFreeBlock = m
<1>1. m \in FreeBlocks /\ \A c \in FreeBlocks : m <= c
  BY GemFSAssumption DEF FreeBlocks, MarkedBelow
<1>2. FreeBlocks \subseteq Nat
  BY GemFSAssumption DEF FreeBlocks
<1>3. FindFreeBlock \in FreeBlocks /\ \A c \in FreeBlocks : FindFreeBlock <= c
  BY <1>1 DEF FindFreeBlock
<1>4. FindFreeBlock <= m /\ m <= FindFreeBlock /\ FindFreeBlock \in Nat
  BY <1>1, <1>2, <1>3
<1> QED
  BY <1>4

\* Marking it moves the border by one.
LEMMA MarkNext ==
  ASSUME NEW m \in Nat, MarkedBelow(m), FBB_SetBlock(m)
  PROVE  fbb' = fbb \cup {m} /\ fbb' = 0 .. m
BY DEF MarkedBelow, FBB_SetBlock

\* The first entry that is not used.
LEMMA FreeEntryFound ==
  ASSUME NEW m \in FreeEntries, \A i \in FreeEntries : m <= i, LastEntry \in Nat
  PROVE  FindFreeEntry = m
<1>1. FreeEntries \subseteq Nat
  BY DEF FreeEntries
<1>2. FindFreeEntry \in FreeEntries /\ \A c \in FreeEntries : FindFreeEntry <= c
  BY DEF FindFreeEntry
<1>3. /\ FindFreeEntry <= m /\ m <= FindFreeEntry
      /\ FindFreeEntry \in Nat /\ m \in Nat
  BY <1>1, <1>2
<1> QED
  BY <1>3

----------------------------------------------------------------------------
(* Initially                                                               *)

\* The image, before the first boot.
LEMMA GemInitInv == ASSUME RoomOnDisk, GemInit PROVE GemInv
<1>1. Len(chain) = 0 /\ LastEntry = 0
  BY DEF GemInit, LastEntry
<1>2. Pristine
  BY DEF GemInit, Pristine
<1>3. StateInv
  <2>1. at \in [call : Calls, k : Nat, free : 0 .. LastEntry, start : Block, block : Block]
    <3>1. 0 \in Block
      BY GemFSAssumption DEF Block
    <3> QED
      BY <1>1, <3>1 DEF GemInit, Start, Calls
  <2>2. bounce \in [1 .. BOUNCE -> Data]
    BY DEF GemInit, Data
  <2>3. disk \in [Block -> EntryType]
    BY ImageFacts DEF GemInit
  <2> QED
    BY <2>1, <2>2, <2>3 DEF GemInit, StateInv
<1>4. ChainInv
  BY <1>1, ImageFacts DEF GemInit, ChainInv
<1> QED
  BY <1>1, <1>2, <1>3, <1>4
     DEF GemInv, EntriesInv, RootInv, ReserveInv, DataInv, FindInv, LinkInv,
         WriteInv, CallInv, RestInv, PcInv, GemInit

----------------------------------------------------------------------------
(* Entries and their blocks                                                *)

\* Entry i is in EntryBlock(i), the main entry in block 1, and no two are in one.
LEMMA Indices ==
  ASSUME GemInv, RoomOnDisk
  PROVE  /\ LastEntry \in Nat /\ LastEntry = Len(chain) /\ LastEntry <= 9
         /\ \A i \in 1 .. LastEntry :
              /\ i \in Calls /\ GetEntryBlock(i) = EntryBlock(i) /\ chain[i] = EntryBlock(i)
              /\ EntryBlock(i) \in fbb /\ EntryBlock(i) \in Nat /\ 6 <= EntryBlock(i)
         /\ GetEntryBlock(0) = 1 /\ ReadEntry(0) = disk[1]
         /\ \A i \in 0 .. LastEntry : GetEntryBlock(i) \in Block
         /\ \A i, j \in 0 .. LastEntry : i # j => GetEntryBlock(i) # GetEntryBlock(j)
<1>1. LastEntry \in Nat /\ LastEntry = Len(chain) /\ LastEntry <= 9
  BY DEF GemInv, StateInv, ChainInv, LastEntry
<1>2. ASSUME NEW i \in 1 .. LastEntry
      PROVE  /\ i \in Calls /\ GetEntryBlock(i) = EntryBlock(i) /\ chain[i] = EntryBlock(i)
             /\ EntryBlock(i) \in fbb /\ EntryBlock(i) \in Nat /\ 6 <= EntryBlock(i)
             /\ EntryBlock(i) \in Block
  <2>1. i \in Calls
    BY <1>1 DEF Calls
  <2>2. EntryBlock(i) \in Nat /\ 6 <= EntryBlock(i) /\ EntryBlock(i) + 2 <= Limit /\ Limit \in Nat
    BY <2>1, Places
  <2>3. EntryBlock(i) \in Block
    BY <2>2, GemFSAssumption DEF RoomOnDisk, Block
  <2> QED
    BY <2>1, <2>2, <2>3 DEF GemInv, ChainInv, GetEntryBlock
<1>3. GetEntryBlock(0) = 1 /\ ReadEntry(0) = disk[1] /\ 1 \in Block
  BY GemFSAssumption DEF GetEntryBlock, ReadEntry, Block
<1>4. ASSUME NEW i \in 0 .. LastEntry, NEW j \in 0 .. LastEntry, i < j
      PROVE  GetEntryBlock(i) # GetEntryBlock(j)
  <2>1. CASE i = 0
    BY <1>2, <1>3, <1>4, <2>1
  <2>2. CASE i # 0
    <3>1. i \in 1 .. LastEntry /\ j \in 1 .. LastEntry
      BY <1>1, <1>4, <2>2
    <3>2. EntryBlock(i) + 2 <= Base[j] /\ Base[j] <= EntryBlock(j) /\ Base[j] \in Nat
      BY <1>2, <1>4, <3>1, Places, PlacesAscend
    <3> QED
      BY <1>2, <3>1, <3>2
  <2> QED
    BY <2>1, <2>2
<1>5. \A i, j \in 0 .. LastEntry : i # j => GetEntryBlock(i) # GetEntryBlock(j)
  <2> SUFFICES ASSUME NEW i \in 0 .. LastEntry, NEW j \in 0 .. LastEntry, i # j
               PROVE  GetEntryBlock(i) # GetEntryBlock(j)
    OBVIOUS
  <2>1. i < j \/ j < i
    BY <1>1
  <2> QED
    BY <1>4, <2>1
<1> QED
  BY <1>1, <1>2, <1>3, <1>5

\* Only entry i has changed.
OnlyEntry(i, e) ==
  /\ disk' \in [Block -> EntryType]
  /\ disk'[GetEntryBlock(i)] = e
  /\ \A b \in Block : b # GetEntryBlock(i) => disk'[b] = disk[b]
  /\ LastEntry' = LastEntry
  /\ \A j \in 0 .. LastEntry : ReadEntry(j)' = IF j = i THEN e ELSE ReadEntry(j)
  /\ \A b \in 6 .. Limit - 1 : b \notin fbb => disk'[b] = disk[b]

\* GemFS_WriteEntry changes one block.
LEMMA EntryWritten ==
  ASSUME GemInv, RoomOnDisk, NEW i \in 0 .. LastEntry, NEW e \in EntryType,
         WriteEntry(i, e), chain' = chain
  PROVE  OnlyEntry(i, e)
<1>1. GetEntryBlock(i) \in Block
  BY Indices
<1>2. disk \in [Block -> EntryType]
  BY DEF GemInv, StateInv
<1>3. /\ disk' \in [Block -> EntryType]
      /\ disk'[GetEntryBlock(i)] = e
      /\ \A b \in Block : b # GetEntryBlock(i) => disk'[b] = disk[b]
  BY <1>1, <1>2 DEF WriteEntry
<1>4. LastEntry' = LastEntry
  BY DEF LastEntry
<1>5. ASSUME NEW j \in 0 .. LastEntry
      PROVE  ReadEntry(j)' = IF j = i THEN e ELSE ReadEntry(j)
  <2>1. GetEntryBlock(j)' = GetEntryBlock(j) /\ GetEntryBlock(j) \in Block
    BY Indices DEF GetEntryBlock
  <2>2. ReadEntry(j)' = disk'[GetEntryBlock(j)]
    BY <2>1 DEF ReadEntry
  <2>3. CASE j = i
    BY <1>3, <2>2, <2>3
  <2>4. CASE j # i
    <3>1. GetEntryBlock(j) # GetEntryBlock(i)
      BY <2>4, Indices
    <3> QED
      BY <1>3, <2>1, <2>2, <2>4, <3>1 DEF ReadEntry
  <2> QED
    BY <2>3, <2>4
<1>6. ASSUME NEW b \in 6 .. Limit - 1, b \notin fbb
      PROVE  disk'[b] = disk[b]
  <2>1. b \in Block
    BY GemFSAssumption DEF RoomOnDisk, Block, Limit
  <2>2. b # GetEntryBlock(i)
    <3>1. CASE i = 0
      BY <3>1, Indices
    <3>2. CASE i # 0
      <4>1. i \in 1 .. LastEntry
        BY <3>2, Indices
      <4> QED
        BY <1>6, <4>1, Indices
    <3> QED
      BY <3>1, <3>2
  <2> QED
    BY <1>3, <2>1, <2>2
<1> QED
  BY <1>3, <1>4, <1>5, <1>6 DEF OnlyEntry

\* Every entry has its type.
LEMMA EntryTypes ==
  ASSUME GemInv, RoomOnDisk, NEW i \in 0 .. LastEntry
  PROVE  ReadEntry(i) \in EntryType
BY Indices DEF GemInv, StateInv, ReadEntry

----------------------------------------------------------------------------
(* Booting                                                                 *)

\* The main entry, when there is one.
LEMMA RootEntry ==
  ASSUME GemInv, pc \notin {"off", "main"}
  PROVE  \E s \in 0 .. LastEntry : disk[1] = [MainEntry EXCEPT !.start = s]
BY DEF GemInv, RootInv, Pristine

\* While only the bitmap and the locals change.
LEMMA SameDisk ==
  ASSUME GemInv, disk' = disk, chain' = chain, fbb \subseteq fbb',
         fbb' \subseteq 0 .. Limit - 1
  PROVE  /\ ChainInv' /\ EntriesInv' /\ LastEntry' = LastEntry
         /\ \A i : ReadEntry(i)' = ReadEntry(i)
         /\ \A e, i : Finished(e, i)' <=> Finished(e, i)
<1>1. ChainInv'
  BY DEF GemInv, ChainInv, LastEntry
<1>2. LastEntry' = LastEntry /\ \A i : ReadEntry(i)' = ReadEntry(i)
  BY DEF LastEntry, ReadEntry, GetEntryBlock
<1>3. \A e, i : Finished(e, i)' <=> Finished(e, i)
  BY <1>2 DEF Finished
<1>4. EntriesInv'
  <2>1. ASSUME NEW i \in 1 .. LastEntry
        PROVE  \/ Raw(ReadEntry(i))' /\ ReadEntry(i)'.index \in {0, i}
               \/ Finished(ReadEntry(i), i)'
    <3>1. PICK e : e = ReadEntry(i)
      OBVIOUS
    <3>2. ReadEntry(i)' = e
      BY <1>2, <3>1
    <3>3. CASE Raw(e) /\ e.index \in {0, i}
      BY <3>2, <3>3 DEF Raw
    <3>4. CASE Finished(e, i)
      <4>1. Finished(e, i)'
        BY <1>3, <3>4
      <4> QED
        BY <3>2, <4>1 DEF Finished
    <3> QED
      BY <3>1, <3>3, <3>4 DEF GemInv, EntriesInv
  <2> QED
    BY <1>2, <2>1 DEF EntriesInv
<1> QED
  BY <1>1, <1>2, <1>3, <1>4

\* GemFS_Init formats a disk without the magic number and serves any other.
LEMMA BootInv == ASSUME GemInv, RoomOnDisk, Boot PROVE GemInv'
<1>1. StateInv' /\ ChainInv' /\ EntriesInv'
  <2>1. StateInv'
    BY DEF Boot, GemInv, StateInv, LastEntry
  <2>2. fbb' \subseteq 0 .. Limit - 1
    BY DEF Boot, GemInv, ChainInv
  <2>3. ChainInv' /\ EntriesInv'
    BY <2>2, SameDisk DEF Boot
  <2> QED
    BY <2>1, <2>3
<1>2. /\ RootInv' /\ pc' \in {"main", "serve"} /\ at' = Start(1)
  <2>1. CASE Pristine
    <3>1. disk[1].data = "zeros"
      <4>1. 1 \in 0 .. Limit - 1
        BY GemFSAssumption DEF Limit
      <4>2. Image[1] = Zeros
        BY <4>1, ImageFacts
      <4>3. disk[1] = Zeros
        BY <2>1, <4>2 DEF Pristine
      <4>4. Zeros.data = "zeros"
        BY DEF Zeros
      <4> QED
        BY <4>3, <4>4
    <3>2. pc' = "main"
      BY <3>1 DEF Boot
    <3> QED
      BY <2>1, <3>2 DEF Pristine, RootInv, Boot
  <2>2. CASE \E s \in 0 .. LastEntry : disk[1] = [MainEntry EXCEPT !.start = s]
    <3>1. disk[1].data = "GEMH"
      BY <2>2 DEF MainEntry, Zeros
    <3>2. pc' = "serve" /\ at = Start(1)
      BY <3>1 DEF Boot, GemInv, RestInv
    <3> QED
      BY <2>2, <3>2 DEF RootInv, Boot, LastEntry
  <2> QED
    BY <2>1, <2>2 DEF GemInv, RootInv
<1> QED
  BY <1>1, <1>2
     DEF GemInv, ReserveInv, DataInv, FindInv, LinkInv, WriteInv, CallInv, RestInv, PcInv

\* Only what is in memory changes.
LEMMA PowerFailureInv == ASSUME GemInv, RoomOnDisk, PowerFailure PROVE GemInv'
<1>1. StateInv'
  <2>1. at' \in [call : Calls, k : Nat, free : 0 .. LastEntry', start : Block, block : Block]
    <3>1. 0 \in Block /\ LastEntry' \in Nat
      BY Indices, GemFSAssumption DEF Block, PowerFailure, LastEntry
    <3> QED
      BY <3>1 DEF PowerFailure, Start, Calls
  <2>2. bounce' \in [1 .. BOUNCE -> Data]
    BY DEF PowerFailure, Data
  <2> QED
    BY <2>1, <2>2 DEF PowerFailure, GemInv, StateInv, LastEntry
<1>2. ChainInv' /\ EntriesInv'
  <2>1. fbb' \subseteq 0 .. Limit - 1
    BY DEF PowerFailure, GemInv, ChainInv
  <2> QED
    BY <2>1, SameDisk DEF PowerFailure
<1>3. RootInv' /\ pc' = "off" /\ at' = Start(1)
  BY DEF PowerFailure, GemInv, RootInv, Pristine, LastEntry
<1> QED
  BY <1>1, <1>2, <1>3
     DEF GemInv, ReserveInv, DataInv, FindInv, LinkInv, WriteInv, CallInv, RestInv, PcInv

----------------------------------------------------------------------------
(* The main entry and the reserved blocks                                  *)

\* The first call makes a directory.
LEMMA FirstCall == Layout[1].dir
BY LayoutCalls DEF Dir

\* The main entry of an empty tree.
LEMMA MainEntryType ==
  /\ MainEntry \in EntryType
  /\ MainEntry.start = 0 /\ MainEntry = [MainEntry EXCEPT !.start = 0]
<1>1. 0 \in Block
  BY GemFSAssumption DEF Block
<1>2. "ROOT" \in Names /\ "GEMH" \in Data /\ 0 \in 0 .. PROGRAM_SIZE
  BY GemFSAssumption DEF Names, Data
<1>3. MainEntry \in EntryType
  BY <1>1, <1>2 DEF MainEntry, Zeros, EntryType
<1>4. MainEntry.start = 0
  BY DEF MainEntry, Zeros
<1>5. MainEntry = [MainEntry EXCEPT !.start = 0]
  BY <1>3, <1>4 DEF EntryType
<1> QED
  BY <1>3, <1>4, <1>5

\* GemFS_FormatPartition writes the main entry first.
LEMMA WriteMainInv == ASSUME GemInv, RoomOnDisk, WriteMain PROVE GemInv'
<1>1. Pristine
  BY DEF WriteMain, GemInv, RootInv
<1>2. chain = <<>> /\ LastEntry = 0 /\ LastEntry' = 0 /\ chain' = <<>>
  BY <1>1 DEF Pristine, WriteMain, LastEntry
<1>3. disk' \in [Block -> EntryType] /\ disk'[1] = MainEntry
      /\ \A b \in Block : b # 1 => disk'[b] = disk[b]
  <2>1. 1 \in Block
    BY GemFSAssumption DEF Block
  <2> QED
    BY <2>1, MainEntryType DEF WriteMain, GemInv, StateInv
<1>4. StateInv'
  BY <1>2, <1>3 DEF WriteMain, GemInv, StateInv
<1>5. ChainInv'
  <2>1. \A b \in 6 .. Limit - 1 : b \in Block /\ b # 1
    BY GemFSAssumption DEF RoomOnDisk, Block, Limit
  <2> QED
    BY <1>2, <1>3, <2>1 DEF WriteMain, GemInv, ChainInv
<1>6. RootInv'
  BY <1>2, <1>3, MainEntryType DEF WriteMain, RootInv
<1>7. ReserveInv'
  <2>1. at' = Start(1) /\ at'.k = 0 /\ at' = [Start(1) EXCEPT !.k = at'.k]
    BY <1>1 DEF WriteMain, Pristine, Start
  <2>2. fbb' = {} /\ made' = <<>>
    BY <1>1 DEF WriteMain, Pristine
  <2>3. 0 .. 0 - 1 = {}
    OBVIOUS
  <2> QED
    BY <1>2, <1>3, <2>1, <2>2, <2>3 DEF ReserveInv, MarkedBelow
<1>8. EntriesInv'
  BY <1>2 DEF EntriesInv
<1> QED
  BY <1>4, <1>5, <1>6, <1>7, <1>8
     DEF WriteMain, GemInv, DataInv, FindInv, LinkInv, WriteInv, CallInv, RestInv, PcInv

\* GemFS_FormatPartition marks the blocks 0 to 5.
LEMMA ReserveStepInv == ASSUME GemInv, RoomOnDisk, Reserve PROVE GemInv'
<1>1. /\ at = [Start(1) EXCEPT !.k = at.k] /\ at.k \in 0 .. 5 /\ MarkedBelow(at.k)
      /\ chain = <<>> /\ made = <<>> /\ disk[1] = MainEntry
  BY DEF Reserve, GemInv, ReserveInv
<1>2. fbb' = fbb \cup {at.k} /\ fbb' = 0 .. at.k
  BY <1>1, MarkNext, SMTT(40) DEF Reserve
<1>3. fbb' \subseteq 0 .. Limit - 1
  BY <1>1, <1>2, GemFSAssumption, SMTT(40) DEF Limit
<1>4. /\ ChainInv' /\ EntriesInv' /\ LastEntry' = LastEntry
  BY <1>2, <1>3, SameDisk DEF Reserve
<1>5. LastEntry = 0 /\ Len(made) = 0
  BY <1>1 DEF LastEntry
<1>6. CASE at.k = 5
  <2>1. pc' = "find" /\ at' = Start(1) /\ at'.call = 1
    <3>1. Layout[1].dir
      BY FirstCall
    <3> QED
      BY <1>6, <3>1 DEF Reserve, FirstWrite, Start
  <2>2. StateInv'
    <3>1. at' \in [call : Calls, k : Nat, free : 0 .. LastEntry', start : Block, block : Block]
      <4>1. 0 \in Block
        BY GemFSAssumption DEF Block
      <4> QED
        BY <1>4, <1>5, <2>1, <4>1 DEF Start, Calls
    <3> QED
      BY <3>1, <1>4 DEF Reserve, GemInv, StateInv
  <2>3. FindInv'
    <3>1. EntryBlock(1) = 6
      BY BaseFacts, LayoutFacts DEF EntryBlock, Calls
    <3>2. fbb' = 0 .. 6 - 1
      BY <1>2, <1>6
    <3> QED
      BY <1>4, <1>5, <2>1, <3>1, <3>2 DEF FindInv, MarkedBelow
  <2>4. CallInv'
    <3>1. disk'[1].start = 0 /\ Len(made') = 0
      BY <1>1, <1>5, MainEntryType DEF Reserve
    <3>2. Layout[1].dir
      BY FirstCall
    <3>3. Call'.dir
      BY <2>1, <3>2 DEF Call
    <3> QED
      BY <1>4, <1>5, <2>1, <3>1, <3>3 DEF CallInv, CallsDone, Unlinked
  <2>5. RootInv'
    BY <1>1, <1>4, <1>5, <2>1, MainEntryType DEF Reserve, RootInv
  <2> QED
    BY <1>4, <2>1, <2>2, <2>3, <2>4, <2>5
       DEF GemInv, ReserveInv, DataInv, LinkInv, WriteInv, RestInv, PcInv
<1>7. CASE at.k # 5
  <2>1. pc' = "reserve" /\ at' = [at EXCEPT !.k = at.k + 1]
    BY <1>7 DEF Reserve
  <2>2. StateInv'
    BY <1>4, <2>1, SMTT(40) DEF Reserve, GemInv, StateInv
  <2>3. ReserveInv'
    <3>1. at'.k = at.k + 1 /\ at.k + 1 \in 0 .. 5 /\ at' = [Start(1) EXCEPT !.k = at'.k]
      BY <1>1, <1>7, <2>1 DEF Start
    <3>2. fbb' = 0 .. (at.k + 1) - 1
      BY <1>1, <1>2
    <3> QED
      BY <1>1, <3>1, <3>2 DEF Reserve, ReserveInv, MarkedBelow
  <2>5. RootInv'
    BY <1>1, <1>4, <1>5, <2>1, MainEntryType DEF Reserve, RootInv
  <2> QED
    BY <1>4, <2>1, <2>2, <2>3, <2>5
       DEF GemInv, FindInv, CallInv, DataInv, LinkInv, WriteInv, RestInv, PcInv
<1> QED
  BY <1>6, <1>7

----------------------------------------------------------------------------
(* Marking blocks and appending entries                                    *)

\* The main entry stays what it is.
LEMMA SameRoot ==
  ASSUME GemInv, pc \notin {"off", "main"}, disk'[1] = disk[1], pc' # "main",
         LastEntry' \in Nat, LastEntry \in Nat, LastEntry <= LastEntry'
  PROVE  RootInv'
<1>1. PICK s \in 0 .. LastEntry : disk[1] = [MainEntry EXCEPT !.start = s]
  BY RootEntry
<1>2. s \in 0 .. LastEntry' /\ disk'[1] = [MainEntry EXCEPT !.start = s]
  BY <1>1
<1> QED
  BY <1>2 DEF RootInv

\* The calls before this one stay done.
LEMMA SameCall ==
  ASSUME GemInv, disk' = disk, chain' = chain, made' = made, at'.call = at.call
  PROVE  /\ CallsDone => CallsDone'
         /\ Unlinked => Unlinked'
         /\ Call' = Call /\ ParentIndex' = ParentIndex
<1>1. LastEntry' = LastEntry /\ \A i : ReadEntry(i)' = ReadEntry(i)
  BY DEF LastEntry, ReadEntry, GetEntryBlock
<1>2. \A e, i : Finished(e, i) => Finished(e, i)'
  BY <1>1 DEF Finished
<1>3. CallsDone => CallsDone'
  BY <1>1, <1>2 DEF CallsDone
<1>4. Unlinked => Unlinked'
  BY <1>1 DEF Unlinked
<1>5. Call' = Call
  BY DEF Call
<1>6. ParentIndex' = ParentIndex
  BY <1>5 DEF ParentIndex
<1> QED
  BY <1>3, <1>4, <1>5, <1>6

\* The places of the current call.
LEMMA CallPlaces ==
  ASSUME GemInv, RoomOnDisk
  PROVE  /\ at.call \in Calls /\ at.call \in Nat /\ at.k \in Nat
         /\ Base[at.call] \in Nat /\ Base[at.call] \in Block
         /\ Call.size \in Nat /\ EntryBlock(at.call) = Base[at.call] + Call.size
         /\ EntryBlock(at.call) \in Nat /\ EntryBlock(at.call) \in Block
         /\ EntryBlock(at.call) + 2 <= Limit
         /\ 6 <= Base[at.call] /\ Base[at.call] <= EntryBlock(at.call)
         /\ Limit \in Nat /\ Limit <= BLOCKS
<1>1. at.call \in Calls /\ at.k \in Nat
  BY DEF GemInv, StateInv
<1>2. Call.size \in Nat
  BY <1>1, SizeFacts, GemFSAssumption DEF Call
<1>3. /\ Base[at.call] \in Nat /\ EntryBlock(at.call) \in Nat
      /\ EntryBlock(at.call) = Base[at.call] + Call.size
      /\ Base[at.call] <= EntryBlock(at.call) /\ 6 <= Base[at.call]
      /\ EntryBlock(at.call) + 2 <= Limit /\ Limit \in Nat
  BY <1>1, Places DEF Call
<1>4. Limit <= BLOCKS
  BY DEF RoomOnDisk
<1>5. Base[at.call] \in Block /\ EntryBlock(at.call) \in Block
  BY <1>3, <1>4, GemFSAssumption DEF Block
<1> QED
  BY <1>1, <1>2, <1>3, <1>4, <1>5 DEF Calls

\* GemFS_CreateFile marks blocks it has not looked at: they are free, because all that is
\* marked is below the first free one.
LEMMA MarkDataInv == ASSUME GemInv, RoomOnDisk, MarkData PROVE GemInv'
<1> DEFINE c == at.call
           first == IF at.k = 0 THEN FindFreeBlock ELSE at.start
<1>1. /\ ~Call.dir /\ at.k < Call.size
      /\ at.k > 0 => at.start = Base[c]
      /\ MarkedBelow(Base[c] + at.k)
      /\ CallsDone /\ Unlinked /\ LastEntry = c - 1
  BY DEF MarkData, GemInv, DataInv, CallInv
<1>2. first = Base[c]
  <2>1. CASE at.k = 0
    <3>1. MarkedBelow(Base[c])
      BY <1>1, <2>1, CallPlaces
    <3>2. Base[c] < BLOCKS
      BY CallPlaces, GemFSAssumption
    <3> QED
      BY <2>1, <3>1, <3>2, CallPlaces, FreeBlockFound
  <2>2. CASE at.k # 0
    BY <1>1, <2>2, CallPlaces
  <2> QED
    BY <2>1, <2>2
<1> HIDE DEF first
<1>3. /\ FBB_SetBlock(Base[c] + at.k)
      /\ at' = [at EXCEPT !.start = Base[c], !.k = @ + 1]
  BY <1>2 DEF MarkData, first
<1>4. fbb' = fbb \cup {Base[c] + at.k} /\ fbb' = 0 .. Base[c] + at.k
  <2>1. Base[c] + at.k \in Nat
    BY CallPlaces
  <2> QED
    BY <1>1, <1>3, <2>1, MarkNext
<1>5. fbb' \subseteq 0 .. Limit - 1
  BY <1>1, <1>4, CallPlaces, SMTT(40)
<1>6. /\ at' \in [call : Calls, k : Nat, free : 0 .. LastEntry, start : Block, block : Block]
      /\ at'.call = c /\ at'.start = Base[c] /\ at'.k = at.k + 1
  <2>1. at \in [call : Calls, k : Nat, free : 0 .. LastEntry, start : Block, block : Block]
    BY DEF GemInv, StateInv
  <2>2. at.k + 1 \in Nat /\ Base[c] \in Block
    BY CallPlaces
  <2> QED
    BY <1>3, <2>1, <2>2
<1>7. /\ ChainInv' /\ EntriesInv' /\ LastEntry' = LastEntry
  BY <1>4, <1>5, SameDisk DEF MarkData
<1>8. StateInv'
  BY <1>6, <1>7 DEF MarkData, GemInv, StateInv
<1>9. /\ CallsDone' /\ Unlinked' /\ Call' = Call
  BY <1>1, <1>6, SameCall DEF MarkData
<1>10. pc' \in {"data", "find"}
  BY DEF MarkData
<1>11. RootInv'
  BY <1>7, <1>10, Indices, SameRoot DEF MarkData
<1>12. CallInv'
  BY <1>1, <1>6, <1>7, <1>9, <1>10, CallPlaces DEF CallInv
<1>13. DataInv' /\ FindInv'
  <2>1. CASE at.k = Call.size - 1
    <3>1. pc' = "find"
      BY <2>1 DEF MarkData
    <3>2. fbb' = 0 .. EntryBlock(c) - 1
      BY <1>4, <2>1, CallPlaces, SMTT(40)
    <3> QED
      BY <1>1, <1>6, <1>7, <3>1, <3>2 DEF DataInv, FindInv, MarkedBelow
  <2>2. CASE at.k # Call.size - 1
    <3>1. pc' = "data"
      BY <2>2 DEF MarkData
    <3>2. at.k + 1 < Call.size
      BY <1>1, <2>2, CallPlaces
    <3>3. fbb' = 0 .. (Base[c] + (at.k + 1)) - 1
      BY <1>4, CallPlaces, SMTT(40)
    <3> QED
      BY <1>1, <1>6, <1>9, <3>1, <3>2, <3>3 DEF DataInv, FindInv, MarkedBelow
  <2> QED
    BY <2>1, <2>2
<1> QED
  BY <1>7, <1>8, <1>10, <1>11, <1>12, <1>13
     DEF GemInv, ReserveInv, LinkInv, WriteInv, RestInv, PcInv

\* The entries that are free when FindFreeEntry looks: none, or the new one.
LEMMA FreeEntriesAre ==
  ASSUME GemInv, RoomOnDisk, pc = "find"
  PROVE  /\ LastEntry = at.call - 1 => FreeEntries = {}
         /\ LastEntry = at.call => FreeEntries = {at.call} /\ FindFreeEntry = at.call
<1>1. CallsDone
  BY DEF GemInv, CallInv
<1>2. ReadEntry(0).used
  <2>1. PICK s : ReadEntry(0) = [MainEntry EXCEPT !.start = s]
    BY RootEntry, Indices
  <2>2. MainEntry.used = TRUE
    BY DEF MainEntry, Zeros
  <2>3. ReadEntry(0).used = MainEntry.used
    BY <2>1, MainEntryType DEF EntryType
  <2> QED
    BY <2>2, <2>3
<1>3. \A i \in 1 .. at.call - 1 : ReadEntry(i).used
  BY <1>1 DEF CallsDone, Finished
<1>4. ASSUME LastEntry = at.call
      PROVE  FreeEntries = {at.call} /\ FindFreeEntry = at.call
  <2>1. ~ReadEntry(at.call).used
    BY <1>4 DEF GemInv, CallInv, Raw
  <2>2. FreeEntries = {at.call}
    <3>1. ASSUME NEW i \in 0 .. LastEntry, ~ReadEntry(i).used
          PROVE  i = at.call
      BY <1>2, <1>3, <1>4, <3>1, CallPlaces
    <3>2. at.call \in 0 .. LastEntry
      BY <1>4, CallPlaces
    <3> QED
      BY <2>1, <3>1, <3>2 DEF FreeEntries
  <2>3. at.call <= at.call
    BY CallPlaces
  <2> QED
    BY <2>2, <2>3, FreeEntryFound, Indices
<1>5. ASSUME LastEntry = at.call - 1
      PROVE  FreeEntries = {}
  <2>1. ASSUME NEW i \in 0 .. LastEntry
        PROVE  ReadEntry(i).used
    BY <1>2, <1>3, <1>5, CallPlaces
  <2> QED
    BY <2>1 DEF FreeEntries
<1> QED
  BY <1>4, <1>5

\* GemFS_CreateEntry marks the block of a new entry.
LEMMA CreateEntryInv == ASSUME GemInv, RoomOnDisk, CreateEntry PROVE GemInv'
<1> DEFINE c == at.call
<1>1. CallsDone /\ Unlinked /\ (~Call.dir => at.start = Base[c])
  BY DEF CreateEntry, GemInv, CallInv
<1>2. LastEntry = c - 1 /\ MarkedBelow(EntryBlock(c))
  <2>1. LastEntry # c
    BY FreeEntriesAre DEF CreateEntry
  <2> QED
    BY <2>1 DEF CreateEntry, GemInv, FindInv
<1>3. FindFreeBlock = EntryBlock(c)
  BY <1>2, CallPlaces, FreeBlockFound, GemFSAssumption
<1>4. fbb' = fbb \cup {EntryBlock(c)} /\ fbb' = 0 .. EntryBlock(c)
  BY <1>2, <1>3, CallPlaces, MarkNext DEF CreateEntry
<1>5. fbb' \subseteq 0 .. Limit - 1
  BY <1>4, CallPlaces
<1>6. /\ at' \in [call : Calls, k : Nat, free : 0 .. LastEntry, start : Block, block : Block]
      /\ at'.call = c /\ at'.start = at.start /\ at'.block = EntryBlock(c)
  BY <1>3, CallPlaces DEF CreateEntry, GemInv, StateInv
<1>7. /\ ChainInv' /\ EntriesInv' /\ LastEntry' = LastEntry
  BY <1>4, <1>5, SameDisk DEF CreateEntry
<1>8. StateInv'
  BY <1>6, <1>7 DEF CreateEntry, GemInv, StateInv
<1>9. /\ CallsDone' /\ Unlinked' /\ Call' = Call
  BY <1>1, <1>6, SameCall DEF CreateEntry
<1>10. pc' = "link" /\ pc = "find"
  BY DEF CreateEntry
<1>11. RootInv'
  BY <1>7, <1>10, Indices, SameRoot DEF CreateEntry
<1>12. CallInv'
  BY <1>1, <1>2, <1>6, <1>7, <1>9, <1>10, CallPlaces DEF CallInv
<1>13. LinkInv'
  <2>1. EntryBlock(c) \in 6 .. Limit - 1 /\ EntryBlock(c) \notin fbb
    BY <1>2, CallPlaces, SMTT(40) DEF MarkedBelow
  <2>2. disk[EntryBlock(c)] = Zeros
    BY <2>1 DEF GemInv, ChainInv
  <2>3. fbb' = 0 .. (EntryBlock(c) + 1) - 1
    BY <1>4, CallPlaces
  <2> QED
    BY <1>6, <2>2, <2>3 DEF CreateEntry, LinkInv, MarkedBelow
<1> QED
  BY <1>7, <1>8, <1>10, <1>11, <1>12, <1>13
     DEF GemInv, ReserveInv, DataInv, FindInv, WriteInv, RestInv, PcInv

\* What was a finished entry stays one when the chain grows.
LEMMA FinishedGrows ==
  ASSUME NEW e, NEW i, Finished(e, i), LastEntry \in Nat, LastEntry' \in Nat, i \in Nat,
         LastEntry <= LastEntry'
  PROVE  Finished(e, i)'
BY DEF Finished

\* GemFS_CreateEntry sets Next_Index_Start of the last entry.
LEMMA LinkEntryInv == ASSUME GemInv, RoomOnDisk, LinkEntry PROVE GemInv'
<1> DEFINE c == at.call
<1>1. /\ CallsDone /\ Unlinked /\ LastEntry = c - 1
      /\ (~Call.dir => at.start = Base[c])
      /\ at.block = EntryBlock(c) /\ disk[at.block] = Zeros
      /\ MarkedBelow(EntryBlock(c) + 1)
  BY DEF LinkEntry, GemInv, CallInv, LinkInv
<1>2. /\ chain' = Append(chain, EntryBlock(c)) /\ disk' = disk /\ fbb' = fbb
      /\ at' = at /\ made' = made /\ pc' = "blank" /\ pc = "link"
  BY <1>1 DEF LinkEntry
<1>3. c \in 1 .. 9 /\ c \in Calls /\ Len(chain) = c - 1
  BY <1>1, CallPlaces DEF Calls, LastEntry
<1>4. /\ chain' \in Seq(Block) /\ LastEntry' = c /\ chain'[c] = EntryBlock(c)
      /\ \A i \in 1 .. LastEntry : chain'[i] = chain[i]
  <2>1. chain \in Seq(Block) /\ EntryBlock(c) \in Block
    BY CallPlaces DEF GemInv, StateInv
  <2> QED
    BY <1>2, <1>3, <2>1 DEF LastEntry
<1>5. \A i \in 0 .. LastEntry : ReadEntry(i)' = ReadEntry(i)
  BY <1>2, <1>4, Indices DEF ReadEntry, GetEntryBlock
<1>6. ReadEntry(c)' = Zeros
  BY <1>1, <1>2, <1>3, <1>4 DEF ReadEntry, GetEntryBlock
<1>7. StateInv'
  <2>1. 0 .. LastEntry \subseteq 0 .. LastEntry' /\ 1 .. LastEntry \subseteq 1 .. LastEntry'
    BY <1>1, <1>3, <1>4, SMTT(40)
  <2>2. at \in [call : Calls, k : Nat, free : 0 .. LastEntry', start : Block, block : Block]
    BY <2>1 DEF GemInv, StateInv
  <2>3. made \in Seq(1 .. LastEntry')
    <3>1. made \in Seq(1 .. LastEntry)
      BY DEF GemInv, StateInv
    <3> QED
      BY <2>1, <3>1, SeqMonotonic
  <2>4. fd \in {NotFound} \cup 0 .. LastEntry'
    BY <2>1 DEF GemInv, StateInv
  <2> QED
    BY <1>2, <1>4, <2>2, <2>3, <2>4 DEF LinkEntry, GemInv, StateInv
<1>8. ChainInv'
  <2>1. ASSUME NEW i \in 1 .. LastEntry'
        PROVE  chain'[i] = EntryBlock(i) /\ 0 .. EntryBlock(i) \subseteq fbb'
    <3>1. CASE i = c
      <4>1. fbb = 0 .. (EntryBlock(c) + 1) - 1
        BY <1>1 DEF MarkedBelow
      <4>2. fbb = 0 .. EntryBlock(c)
        BY <4>1, CallPlaces
      <4> QED
        BY <1>2, <1>4, <3>1, <4>2
    <3>2. CASE i # c
      <4>1. i \in 1 .. LastEntry
        BY <1>1, <1>3, <1>4, <3>2
      <4> QED
        BY <1>2, <1>4, <4>1 DEF GemInv, ChainInv
    <3> QED
      BY <3>1, <3>2
  <2> QED
    BY <1>2, <1>3, <1>4, <2>1, SMTT(40) DEF GemInv, ChainInv
<1>9. \A i \in 1 .. LastEntry : Finished(ReadEntry(i), i) => Finished(ReadEntry(i), i)'
  <2> SUFFICES ASSUME NEW i \in 1 .. LastEntry, Finished(ReadEntry(i), i)
               PROVE  Finished(ReadEntry(i), i)'
    OBVIOUS
  <2>1. PICK e : e = ReadEntry(i)
    OBVIOUS
  <2>2. Finished(e, i)
    BY <2>1
  <2>3. Finished(e, i)'
    BY <1>1, <1>3, <1>4, <2>2, FinishedGrows, SMTT(40)
  <2>4. ReadEntry(i)' = e
    BY <1>5, <2>1, Indices
  <2> QED
    BY <2>3, <2>4 DEF Finished
<1>10. EntriesInv'
  <2>1. ASSUME NEW i \in 1 .. LastEntry'
        PROVE  \/ Raw(ReadEntry(i)') /\ ReadEntry(i)'.index \in {0, i}
               \/ Finished(ReadEntry(i), i)'
    <3>1. CASE i = c
      <4>1. Raw(Zeros) /\ Zeros.index = 0
        BY DEF Raw, Zeros
      <4> QED
        BY <1>2, <1>6, <3>1, <4>1
    <3>2. CASE i # c
      <4>1. i \in 1 .. LastEntry /\ i \in 0 .. LastEntry
        BY <1>1, <1>3, <1>4, <3>2, SMTT(40)
      <4> QED
        BY <1>5, <1>9, <4>1 DEF GemInv, EntriesInv
    <3> QED
      BY <3>1, <3>2
  <2> QED
    BY <2>1 DEF EntriesInv, Raw
<1>11. RootInv'
  BY <1>1, <1>2, <1>3, <1>4, Indices, SameRoot, SMTT(40)
<1>12. CallsDone'
  <2>1. ASSUME NEW i \in 1 .. c - 1
        PROVE  made[i] = i /\ i <= LastEntry' /\ Finished(ReadEntry(i), i)'
    <3>1. i \in 1 .. LastEntry /\ made[i] = i /\ Finished(ReadEntry(i), i)
      BY <1>1, <1>3 DEF CallsDone
    <3> QED
      BY <1>1, <1>3, <1>4, <1>9, <3>1, SMTT(40)
  <2> QED
    BY <1>1, <1>2, <2>1 DEF CallsDone
<1>13. Unlinked'
  BY <1>1, <1>2, <1>5, <1>3 DEF Unlinked
<1>14. CallInv'
  BY <1>1, <1>2, <1>4, <1>12, <1>13 DEF CallInv, Call
<1>15. LinkInv'
  BY <1>1, <1>2 DEF LinkInv, MarkedBelow
<1> QED
  BY <1>2, <1>7, <1>8, <1>10, <1>11, <1>14, <1>15
     DEF GemInv, ReserveInv, DataInv, FindInv, WriteInv, RestInv, PcInv

\* When one entry is written, and the main entry or what it becomes is in order,
\* so are all of them.
LEMMA OneEntryInv ==
  ASSUME GemInv, RoomOnDisk, NEW i \in 0 .. LastEntry, NEW e, OnlyEntry(i, e),
         chain' = chain, fbb' = fbb,
         i # 0 => (Raw(e) /\ e.index \in {0, i}) \/ Finished(e, i)
  PROVE  /\ ChainInv' /\ EntriesInv'
         /\ \A j \in 1 .. LastEntry :
              j # i /\ Finished(ReadEntry(j), j) => Finished(ReadEntry(j), j)'
<1>1. LastEntry' = LastEntry
  BY DEF OnlyEntry
<1>2. ChainInv'
  BY <1>1 DEF GemInv, ChainInv, OnlyEntry
<1>3. ASSUME NEW x, NEW j PROVE Finished(x, j) => Finished(x, j)'
  BY <1>1 DEF Finished
<1>4. ASSUME NEW j \in 1 .. LastEntry, j # i, Finished(ReadEntry(j), j)
      PROVE  Finished(ReadEntry(j), j)'
  <2>1. PICK x : x = ReadEntry(j)
    OBVIOUS
  <2>2. ReadEntry(j)' = x
    BY <1>4, <2>1, Indices DEF OnlyEntry
  <2>3. Finished(x, j)'
    BY <1>3, <1>4, <2>1
  <2> QED
    BY <2>2, <2>3 DEF Finished
<1>5. ASSUME NEW j \in 1 .. LastEntry
      PROVE  \/ Raw(ReadEntry(j))' /\ ReadEntry(j)'.index \in {0, j}
             \/ Finished(ReadEntry(j), j)'
  <2>1. CASE j = i
    <3>1. ReadEntry(j)' = e
      BY <2>1, Indices DEF OnlyEntry
    <3>2. CASE Raw(e) /\ e.index \in {0, i}
      BY <2>1, <3>1, <3>2 DEF Raw
    <3>3. CASE Finished(e, i)
      <4>1. Finished(e, i)'
        BY <1>3, <3>3
      <4> QED
        BY <2>1, <3>1, <4>1 DEF Finished
    <3> QED
      BY <2>1, <3>2, <3>3, Indices
  <2>2. CASE j # i
    <3>1. ReadEntry(j)' = ReadEntry(j)
      BY <2>2, Indices DEF OnlyEntry
    <3>2. CASE Raw(ReadEntry(j)) /\ ReadEntry(j).index \in {0, j}
      BY <3>1, <3>2 DEF Raw
    <3> QED
      BY <1>4, <2>2, <3>2 DEF GemInv, EntriesInv
  <2> QED
    BY <2>1, <2>2
<1>6. EntriesInv'
  BY <1>1, <1>5 DEF EntriesInv
<1> QED
  BY <1>2, <1>4, <1>6

\* Writing an entry keeps the earlier calls done.
LEMMA OneEntryDone ==
  ASSUME GemInv, RoomOnDisk, NEW i \in 0 .. LastEntry, NEW e, OnlyEntry(i, e),
         chain' = chain, fbb' = fbb, made' = made, at'.call = at.call, CallsDone,
         i # 0 => i = at.call \/ Finished(e, i)
  PROVE  CallsDone'
<1>1. LastEntry' = LastEntry
  BY DEF OnlyEntry
<1>2. ASSUME NEW x, NEW j PROVE Finished(x, j) => Finished(x, j)'
  BY <1>1 DEF Finished
<1>3. ASSUME NEW j \in 1 .. at.call - 1
      PROVE  Finished(ReadEntry(j), j)'
  <2>1. Finished(ReadEntry(j), j) /\ j <= LastEntry
    BY DEF CallsDone
  <2>2. at.call \in Nat
    BY CallPlaces
  <2>3. j \in 0 .. LastEntry /\ j # 0 /\ j # at.call
    BY <2>1, <2>2, Indices
  <2>4. PICK x : x = IF j = i THEN e ELSE ReadEntry(j)
    OBVIOUS
  <2>5. ReadEntry(j)' = x
    BY <2>3, <2>4 DEF OnlyEntry
  <2>6. Finished(x, j)
    BY <2>1, <2>3, <2>4
  <2>7. Finished(x, j)'
    BY <1>2, <2>6
  <2> QED
    BY <2>5, <2>7 DEF Finished
<1> QED
  BY <1>1, <1>3 DEF CallsDone

\* GemFS_CreateEntry writes the new entry, its Sibling_Index uninitialised.
LEMMA BlankEntryInv ==
  ASSUME GemInv, RoomOnDisk, Garbage \subseteq {0, 1}, BlankEntry
  PROVE  GemInv'
<1>1. PICK c : c = at.call
  OBVIOUS
<1>2. /\ CallsDone /\ Unlinked /\ LastEntry = c
      /\ (~Call.dir => at.start = Base[c])
      /\ at.block = EntryBlock(c) /\ MarkedBelow(EntryBlock(c) + 1)
  BY <1>1 DEF BlankEntry, GemInv, CallInv, LinkInv
<1>3. c \in Calls /\ c \in 1 .. LastEntry /\ c \in 0 .. LastEntry /\ c \in Nat
      /\ GetEntryBlock(c) = EntryBlock(c)
  <2>1. c \in Calls /\ c \in 1 .. 9
    BY <1>1, CallPlaces DEF Calls
  <2>2. c \in 1 .. LastEntry /\ c \in 0 .. LastEntry /\ c \in Nat
    BY <1>2, <2>1
  <2> QED
    BY <2>1, <2>2, Indices
<1>4. PICK g \in Garbage :
        disk' = [disk EXCEPT ![at.block] =
                   [Zeros EXCEPT !.index = LastEntry, !.sibling = g, !.data = "entry"]]
  BY DEF BlankEntry
<1> DEFINE e == [Zeros EXCEPT !.index = c, !.sibling = g, !.data = "entry"]
<1>5. e \in EntryType /\ Raw(e) /\ e.index = c
  <2>1. 0 \in Block /\ g \in Nat /\ g \in {0, 1} /\ "entry" \in Data /\ "" \in Names
        /\ 0 \in 0 .. PROGRAM_SIZE
    BY GemFSAssumption DEF Block, Data, Names
  <2> QED
    BY <1>3, <2>1 DEF Zeros, EntryType, Raw
<1>6. WriteEntry(c, e)
  BY <1>2, <1>3, <1>4 DEF WriteEntry
<1> HIDE DEF e
<1>7. /\ chain' = chain /\ fbb' = fbb /\ at' = at /\ made' = made /\ pc' = "find"
      /\ fd' = fd /\ bounce' = bounce /\ pc = "blank"
  BY DEF BlankEntry
<1>8. OnlyEntry(c, e)
  BY <1>3, <1>5, <1>6, <1>7, EntryWritten
<1>9. ChainInv' /\ EntriesInv' /\ CallsDone'
  BY <1>1, <1>2, <1>3, <1>5, <1>7, <1>8, OneEntryInv, OneEntryDone
<1>10. LastEntry' = c /\ ReadEntry(c)' = e /\ LastEntry' = LastEntry
  BY <1>2, <1>3, <1>8 DEF OnlyEntry
<1>11. StateInv'
  BY <1>7, <1>8, <1>10 DEF GemInv, StateInv, OnlyEntry
<1>12. disk'[1] = disk[1]
  <2>1. EntryBlock(c) # 1 /\ 1 \in Block
    BY <1>3, Places, GemFSAssumption DEF Block
  <2> QED
    BY <1>3, <1>8, <2>1 DEF OnlyEntry
<1>13. RootInv'
  BY <1>3, <1>7, <1>10, <1>12, SameRoot, Indices
<1>14. Unlinked'
  <2>1. \A i \in 1 .. c - 1 : ReadEntry(i)' = ReadEntry(i)
    BY <1>2, <1>3, <1>8 DEF OnlyEntry
  <2> QED
    BY <1>1, <1>2, <1>7, <1>12, <2>1 DEF Unlinked
<1>15. CallInv'
  <2>1. Raw(ReadEntry(at.call))' /\ ReadEntry(at.call)'.index = at'.call
    BY <1>1, <1>5, <1>7, <1>10 DEF Raw
  <2> QED
    BY <1>1, <1>2, <1>7, <1>9, <1>10, <1>14, <2>1 DEF CallInv, Call
<1>16. FindInv'
  BY <1>1, <1>2, <1>7, <1>10 DEF FindInv, MarkedBelow
<1> QED
  BY <1>7, <1>9, <1>11, <1>13, <1>15, <1>16
     DEF GemInv, ReserveInv, DataInv, LinkInv, WriteInv, RestInv, PcInv

\* GemFS_mkdir takes the entry that was just made.
LEMMA ClaimInv == ASSUME GemInv, RoomOnDisk, Claim PROVE GemInv'
<1>1. PICK c : c = at.call
  OBVIOUS
<1>2. CallsDone /\ Unlinked /\ (~Call.dir => at.start = Base[c])
  BY <1>1 DEF Claim, GemInv, CallInv
<1>3. LastEntry = c /\ MarkedBelow(EntryBlock(c) + 1) /\ FindFreeEntry = c
  <2>1. LastEntry # c - 1
    BY <1>1, FreeEntriesAre DEF Claim
  <2>2. LastEntry = c /\ MarkedBelow(EntryBlock(c) + 1)
    BY <1>1, <2>1 DEF Claim, GemInv, FindInv
  <2> QED
    BY <1>1, <2>2, FreeEntriesAre DEF Claim
<1>4. FindFreeBlock = EntryBlock(c) + 1
  <2>1. EntryBlock(c) + 1 \in Nat /\ EntryBlock(c) + 1 < BLOCKS
    BY <1>1, CallPlaces, GemFSAssumption
  <2> QED
    BY <1>3, <2>1, FreeBlockFound
<1>5. fbb' = fbb \cup {EntryBlock(c) + 1} /\ fbb' = 0 .. EntryBlock(c) + 1
  <2>1. EntryBlock(c) + 1 \in Nat /\ FBB_SetBlock(EntryBlock(c) + 1)
    BY <1>1, <1>4, CallPlaces DEF Claim
  <2> QED
    BY <1>3, <2>1, MarkNext
<1>6. fbb' \subseteq 0 .. Limit - 1
  BY <1>1, <1>5, CallPlaces, SMTT(40)
<1>7. /\ at' \in [call : Calls, k : Nat, free : 0 .. LastEntry, start : Block, block : Block]
      /\ at'.call = c /\ at'.start = at.start /\ at'.free = c
  <2>1. at' = [at EXCEPT !.free = c] /\ c \in 0 .. LastEntry
    BY <1>1, <1>3, CallPlaces DEF Claim
  <2>2. at \in [call : Calls, k : Nat, free : 0 .. LastEntry, start : Block, block : Block]
    BY DEF GemInv, StateInv
  <2> QED
    BY <1>1, <2>1, <2>2
<1>8. /\ ChainInv' /\ EntriesInv' /\ LastEntry' = LastEntry
      /\ ReadEntry(c)' = ReadEntry(c)
  BY <1>5, <1>6, SameDisk DEF Claim
<1>9. StateInv'
  BY <1>7, <1>8 DEF Claim, GemInv, StateInv
<1>10. /\ CallsDone' /\ Unlinked' /\ Call' = Call /\ ParentIndex' = ParentIndex
  BY <1>1, <1>2, <1>7, SameCall DEF Claim
<1>11. pc' \in {"sibling", "entry"} /\ pc = "find"
  BY DEF Claim
<1>12. RootInv'
  BY <1>8, <1>11, Indices, SameRoot DEF Claim
<1>13. CallInv'
  <2>1. Raw(ReadEntry(c)) /\ ReadEntry(c).index = c
    BY <1>1, <1>3, <1>11 DEF GemInv, CallInv
  <2>2. Raw(ReadEntry(at.call))' /\ ReadEntry(at.call)'.index = at'.call
    BY <1>7, <1>8, <2>1 DEF Raw
  <2> QED
    BY <1>2, <1>3, <1>7, <1>8, <1>10, <1>11, <2>2 DEF CallInv
<1>14. WriteInv'
  <2>1. fbb' = 0 .. (EntryBlock(c) + 2) - 1
    BY <1>1, <1>5, CallPlaces, SMTT(40)
  <2>2. pc' = "sibling" => ReadEntry(ParentIndex)'.start # 0
    <3>1. ReadEntry(ParentIndex)' = ReadEntry(ParentIndex)
      BY <1>10 DEF Claim, ReadEntry, GetEntryBlock
    <3> QED
      BY <3>1 DEF Claim
  <2> QED
    BY <1>7, <1>11, <2>1, <2>2 DEF WriteInv, MarkedBelow
<1> QED
  BY <1>8, <1>9, <1>11, <1>12, <1>13, <1>14
     DEF GemInv, ReserveInv, DataInv, FindInv, LinkInv, RestInv, PcInv

----------------------------------------------------------------------------
(* Siblings                                                                *)

\* From one child to the next.
After ==
  [i \in {NotFound} \cup 0 .. LastEntry |->
     IF i = NotFound \/ ReadEntry(i).sibling = 0 THEN NotFound
     ELSE ReadEntry(i).sibling]

\* GemFS_Find_Index_By_Name's walk begins with the first child and goes on with siblings.
LEMMA ChildEquations ==
  ASSUME NEW p, LastEntry \in Nat
  PROVE  /\ DOMAIN Child(p) = 0 .. LastEntry + 1
         /\ Child(p)[0] = ReadEntry(p).start
         /\ \A k \in 1 .. LastEntry + 1 : Child(p)[k] = After[Child(p)[k - 1]]
<1> DEFINE n == LastEntry + 1
           s == ReadEntry(p).start
           next == [k \in 1 .. n |-> After]
<1>1. PICK w : Iterates(w, n, s, next)
  <2>1. n \in Nat
    OBVIOUS
  <2> HIDE DEF n, s, next
  <2> QED
    BY <2>1, IterateExists
<1>2. w = [k \in 0 .. n |-> IF k = 0 THEN s ELSE After[w[k - 1]]]
  <2>1. \A k \in 0 .. n : k # 0 => next[k] = After
    <3> HIDE DEF n, s
    <3> QED
      OBVIOUS
  <2> HIDE DEF next, n, s
  <2> QED
    BY <1>1, <2>1, Zenon DEF Iterates
<1>3. Child(p) = [k \in 0 .. n |-> IF k = 0 THEN s ELSE After[Child(p)[k - 1]]]
  BY <1>2, Zenon DEF Child, After
<1> HIDE DEF s
<1>4. DOMAIN Child(p) = 0 .. n
  BY <1>3
<1>5. 0 \in 0 .. n /\ Child(p)[0] = s
  <2>1. 0 \in 0 .. n
    OBVIOUS
  <2> QED
    BY <1>3, <2>1
<1>6. ASSUME NEW k \in 1 .. n
      PROVE  Child(p)[k] = After[Child(p)[k - 1]]
  <2>1. k \in 0 .. n /\ k # 0
    OBVIOUS
  <2> QED
    BY <1>3, <2>1
<1> QED
  BY <1>4, <1>5, <1>6 DEF s

\* The main entry has index 0 and no sibling.
LEMMA RootIndex ==
  ASSUME GemInv, RoomOnDisk
  PROVE  ReadEntry(0).sibling = 0 /\ ReadEntry(0).index = 0
<1>1. ReadEntry(0) = disk[1]
  BY Indices
<1>2. CASE Pristine
  <2>1. 1 \in 0 .. Limit - 1
    BY GemFSAssumption DEF Limit
  <2>2. disk[1] = Zeros
    BY <1>2, <2>1, ImageFacts DEF Pristine
  <2>3. Zeros.sibling = 0 /\ Zeros.index = 0
    BY DEF Zeros
  <2> QED
    BY <1>1, <2>2, <2>3
<1>3. CASE \E s \in 0 .. LastEntry : disk[1] = [MainEntry EXCEPT !.start = s]
  <2>1. PICK s : disk[1] = [MainEntry EXCEPT !.start = s]
    BY <1>3
  <2>2. MainEntry.sibling = 0 /\ MainEntry.index = 0
    BY DEF MainEntry, Zeros
  <2>3. [MainEntry EXCEPT !.start = s].sibling = MainEntry.sibling
        /\ [MainEntry EXCEPT !.start = s].index = MainEntry.index
    BY MainEntryType DEF EntryType
  <2> QED
    BY <1>1, <2>1, <2>2, <2>3
<1> QED
  BY <1>2, <1>3 DEF GemInv, RootInv

\* Links lead to entries.
LEMMA SiblingsInChain ==
  ASSUME GemInv, RoomOnDisk
  PROVE  /\ \A i \in 0 .. LastEntry : ReadEntry(i).sibling \in 0 .. LastEntry
         /\ \A i \in 0 .. LastEntry : ReadEntry(i).index \in 0 .. LastEntry
<1>1. ASSUME NEW i \in 1 .. LastEntry
      PROVE  ReadEntry(i).sibling \in 0 .. LastEntry /\ ReadEntry(i).index \in 0 .. LastEntry
  <2>1. LastEntry \in Nat
    BY Indices
  <2>2. CASE Raw(ReadEntry(i)) /\ ReadEntry(i).index \in {0, i}
    <3>1. ReadEntry(i).sibling \in {0, 1}
      BY <2>2 DEF Raw
    <3>2. 1 \in 0 .. LastEntry /\ i \in 0 .. LastEntry /\ 0 \in 0 .. LastEntry
      BY <2>1
    <3> QED
      BY <2>2, <3>1, <3>2
  <2>3. CASE Finished(ReadEntry(i), i)
    <3>1. ReadEntry(i).index = i
      BY <2>3 DEF Finished
    <3>2. ReadEntry(i).sibling # 0 => ReadEntry(i).sibling \in i + 1 .. LastEntry
      BY <2>3 DEF Finished
    <3> QED
      BY <2>1, <3>1, <3>2
  <2> QED
    BY <2>2, <2>3 DEF GemInv, EntriesInv
<1>2. ReadEntry(0).sibling = 0 /\ ReadEntry(0).index = 0
  BY RootIndex
<1>3. ASSUME NEW i \in 0 .. LastEntry
      PROVE  ReadEntry(i).sibling \in 0 .. LastEntry /\ ReadEntry(i).index \in 0 .. LastEntry
  <2>1. i = 0 \/ i \in 1 .. LastEntry
    BY Indices
  <2> QED
    BY <1>1, <1>2, <2>1, Indices
<1> QED
  BY <1>3

\* A walk that begins at an entry stays among the entries.
LEMMA ChildRange ==
  ASSUME GemInv, RoomOnDisk, NEW p, ReadEntry(p).start \in 0 .. LastEntry
  PROVE  \A k \in 0 .. LastEntry + 1 : Child(p)[k] \in {NotFound} \cup 0 .. LastEntry
<1> DEFINE V == {NotFound} \cup 0 .. LastEntry
           S == {k \in 0 .. LastEntry + 1 : Child(p)[k] \in V}
<1>1. LastEntry \in Nat
  BY Indices
<1>2. \A v \in V : After[v] \in V
  BY SiblingsInChain DEF After
<1>3. 0 \in S
  BY <1>1, ChildEquations
<1>4. ASSUME NEW k \in 1 .. LastEntry + 1, k - 1 \in S
      PROVE  k \in S
  <2>1. Child(p)[k] = After[Child(p)[k - 1]]
    BY <1>1, ChildEquations
  <2>2. Child(p)[k - 1] \in V
    BY <1>4
  <2>3. k \in 0 .. LastEntry + 1
    BY <1>1
  <2> HIDE DEF V
  <2> QED
    BY <1>2, <2>1, <2>2, <2>3
<1>5. \A k \in 0 .. LastEntry + 1 : k \in S
  <2>1. LastEntry + 1 \in Nat
    BY <1>1
  <2> HIDE DEF S
  <2> QED
    BY <1>3, <1>4, <2>1, Induction
<1> QED
  BY <1>5

\* The parent of what the current call makes is the main entry or a directory
\* that an earlier call made.
LEMMA ParentFacts ==
  ASSUME GemInv, RoomOnDisk, CallsDone
  PROVE  /\ ParentIndex \in 0 .. at.call - 1
         /\ ParentIndex \in 0 .. LastEntry
         /\ ParentIndex # 0 => /\ Finished(ReadEntry(ParentIndex), ParentIndex)
                               /\ ParentIndex \in Calls /\ Layout[ParentIndex].dir
<1>1. at.call \in Calls /\ at.call \in Nat
  BY CallPlaces
<1>2. Call.parent \in 0 .. 5 /\ Call.parent < at.call
  BY <1>1, LayoutFacts DEF Call
<1>3. CASE Call.parent = 0
  BY <1>1, <1>3, Indices DEF ParentIndex, Calls
<1>4. CASE Call.parent # 0
  <2>1. Call.parent \in 1 .. at.call - 1 /\ Call.parent \in Calls
    BY <1>1, <1>2, <1>4 DEF Calls
  <2>2. ParentIndex = Call.parent
    BY <1>4, <2>1 DEF ParentIndex, CallsDone
  <2>3. Finished(ReadEntry(ParentIndex), ParentIndex) /\ ParentIndex <= LastEntry
    BY <2>1, <2>2 DEF CallsDone
  <2>4. Layout[ParentIndex].dir
    <3>1. ParentIndex \in Calls /\ ParentIndex <= 5
      BY <1>2, <2>1, <2>2
    <3>2. Layout[ParentIndex].dir = TRUE
      BY <3>1, LayoutFacts
    <3> QED
      BY <3>2
  <2> QED
    BY <1>1, <2>1, <2>2, <2>3, <2>4, Indices
<1> QED
  BY <1>3, <1>4

\* Where a parent's first child is while a sibling is added.
LEMMA FirstChild ==
  ASSUME GemInv, RoomOnDisk, CallsDone, Unlinked
  PROVE  ReadEntry(ParentIndex).start \in 0 .. at.call - 1
<1>1. at.call \in Nat
  BY CallPlaces
<1>2. CASE ParentIndex = 0
  <2>1. ReadEntry(ParentIndex).start < at.call
    BY <1>2, Indices DEF Unlinked
  <2>2. ReadEntry(ParentIndex) \in EntryType
    BY ParentFacts, EntryTypes
  <2>3. ReadEntry(ParentIndex).start \in Nat
    BY <2>2, GemFSAssumption DEF EntryType, Block
  <2> QED
    BY <1>1, <2>1, <2>3
<1>3. CASE ParentIndex # 0
  <2>1. ParentIndex \in 1 .. at.call - 1 /\ Layout[ParentIndex].dir
    BY <1>1, <1>3, ParentFacts
  <2>2. ReadEntry(ParentIndex).start < at.call
    BY <2>1 DEF Unlinked
  <2>3. ReadEntry(ParentIndex) \in EntryType
    BY ParentFacts, EntryTypes
  <2>4. ReadEntry(ParentIndex).start \in Nat
    BY <2>3, GemFSAssumption DEF EntryType, Block
  <2> QED
    BY <1>1, <2>2, <2>4
<1> QED
  BY <1>2, <1>3

\* While a sibling is added, the walk ascends, so it ends.
LEMMA ChildAscends ==
  ASSUME GemInv, RoomOnDisk, pc = "sibling"
  PROVE  LET child == Child(ParentIndex)
         IN  /\ child[0] # NotFound
             /\ \A k \in 0 .. LastEntry + 1 :
                  child[k] = NotFound \/ child[k] \in k + 1 .. at.call - 1
<1> DEFINE child == Child(ParentIndex)
<1>1. CallsDone /\ Unlinked /\ LastEntry = at.call /\ LastEntry \in Nat
  BY Indices DEF GemInv, CallInv
<1>2. child[0] \in 1 .. at.call - 1
  <2>1. child[0] = ReadEntry(ParentIndex).start
    BY <1>1, ChildEquations
  <2>2. ReadEntry(ParentIndex).start # 0
    BY DEF GemInv, WriteInv
  <2> HIDE DEF child
  <2> QED
    BY <1>1, <2>1, <2>2, FirstChild
<1>3. ASSUME NEW v \in 1 .. at.call - 1
      PROVE  After[v] = NotFound \/ After[v] \in v + 1 .. at.call - 1
  <2>1. Finished(ReadEntry(v), v)
    BY <1>1 DEF CallsDone
  <2>5. ReadEntry(v).sibling < at.call
    BY <1>1 DEF Unlinked
  <2>2. ReadEntry(v).sibling # 0 => ReadEntry(v).sibling \in v + 1 .. LastEntry
    BY <2>1 DEF Finished
  <2>3. v \in {NotFound} \cup 0 .. LastEntry /\ v # NotFound
    BY <1>1 DEF NotFound
  <2>4. After[v] = IF ReadEntry(v).sibling = 0 THEN NotFound ELSE ReadEntry(v).sibling
    BY <2>3 DEF After
  <2> QED
    BY <1>1, <2>2, <2>4, <2>5
<1>4. After[NotFound] = NotFound
  BY DEF After
<1> DEFINE S == {k \in 0 .. LastEntry + 1 :
                   child[k] = NotFound \/ child[k] \in k + 1 .. at.call - 1}
<1>5. 0 \in S
  BY <1>1, <1>2
<1>6. ASSUME NEW k \in 1 .. LastEntry + 1, k - 1 \in S
      PROVE  k \in S
  <2>1. child[k] = After[child[k - 1]]
    BY <1>1, ChildEquations
  <2>2. k \in 0 .. LastEntry + 1
    BY <1>1
  <2>3. CASE child[k - 1] = NotFound
    BY <1>4, <2>1, <2>2, <2>3
  <2>4. CASE child[k - 1] # NotFound
    <3>1. child[k - 1] \in (k - 1) + 1 .. at.call - 1
      BY <1>6, <2>4
    <3>2. child[k - 1] \in 1 .. at.call - 1 /\ child[k - 1] >= k
      BY <1>1, <3>1
    <3> HIDE DEF child
    <3>3. child[k] = NotFound \/ child[k] \in child[k - 1] + 1 .. at.call - 1
      BY <1>3, <2>1, <3>2
    <3>4. child[k] = NotFound \/ child[k] \in k + 1 .. at.call - 1
      BY <1>1, <3>2, <3>3
    <3> QED
      BY <2>2, <3>4
  <2> QED
    BY <2>3, <2>4
<1>7. \A k \in 0 .. LastEntry + 1 : k \in S
  <2>1. LastEntry + 1 \in Nat
    BY <1>1
  <2> HIDE DEF S
  <2> QED
    BY <1>5, <1>6, <2>1, Induction
<1>8. child[0] # NotFound
  <2> HIDE DEF child
  <2> QED
    BY <1>1, <1>2 DEF NotFound
<1> QED
  BY <1>7, <1>8

\* The last child, whose sibling is set: an entry that an earlier call made.
LEMMA LastChild ==
  ASSUME GemInv, RoomOnDisk, pc = "sibling"
  PROVE  LET child == Child(ParentIndex)
             last == CHOOSE k \in DOMAIN child :
                       child[k] # NotFound /\ child[k + 1] = NotFound
         IN  child[last] \in 1 .. at.call - 1
<1> DEFINE child == Child(ParentIndex)
           T == {k \in 0 .. LastEntry + 1 : child[k] = NotFound}
<1>1. LastEntry = at.call /\ LastEntry \in Nat /\ at.call \in 1 .. 9
  BY Indices, CallPlaces DEF GemInv, CallInv, Calls
<1>2. DOMAIN child = 0 .. LastEntry + 1
  BY <1>1, ChildEquations
<1>3. /\ child[0] # NotFound
      /\ \A k \in 0 .. LastEntry + 1 :
           child[k] = NotFound \/ child[k] \in k + 1 .. at.call - 1
  BY ChildAscends
<1> HIDE DEF child
<1>4. LastEntry \in T /\ LastEntry + 1 \in T
  <2>1. \A k \in {LastEntry, LastEntry + 1} : k \in 0 .. LastEntry + 1 /\ k + 1 .. at.call - 1 = {}
    BY <1>1
  <2> QED
    BY <1>3, <2>1
<1>5. PICK m \in T : \A y \in T : m <= y
  <2>1. T \in SUBSET Nat /\ T # {}
    BY <1>1, <1>4
  <2> HIDE DEF T
  <2> QED
    BY <2>1, Smallest
<1>6. m - 1 \in 0 .. LastEntry + 1 /\ m - 1 \notin T /\ (m - 1) + 1 = m
  <2>1. m \in 0 .. LastEntry + 1 /\ m # 0
    BY <1>3
  <2>2. m - 1 \in 0 .. LastEntry + 1 /\ (m - 1) + 1 = m /\ ~(m <= m - 1)
    BY <1>1, <2>1
  <2> QED
    BY <1>5, <2>2
<1>7. child[m - 1] # NotFound /\ child[(m - 1) + 1] = NotFound
  BY <1>5, <1>6
<1> DEFINE last == CHOOSE k \in DOMAIN child :
                     child[k] # NotFound /\ child[k + 1] = NotFound
<1>8. last \in DOMAIN child /\ child[last] # NotFound
  <2>1. \E k \in DOMAIN child : child[k] # NotFound /\ child[k + 1] = NotFound
    BY <1>2, <1>6, <1>7
  <2> QED
    BY <2>1
<1> HIDE DEF last
<1>9. child[last] \in last + 1 .. at.call - 1 /\ last \in Nat
  BY <1>1, <1>2, <1>3, <1>8
<1>10. child[last] \in 1 .. at.call - 1
  BY <1>1, <1>9
<1> QED
  BY <1>10 DEF last, child

\* GemFS_mkdir sets Sibling_Index of the last child: an earlier entry, which stays finished.
LEMMA AddSiblingInv == ASSUME GemInv, RoomOnDisk, AddSibling PROVE GemInv'
<1>1. PICK c : c = at.call
  OBVIOUS
<1>2. /\ CallsDone /\ LastEntry = c /\ (~Call.dir => at.start = Base[c])
      /\ Raw(ReadEntry(c)) /\ ReadEntry(c).index = c
      /\ at.free = c /\ MarkedBelow(EntryBlock(c) + 2) /\ pc = "sibling"
  BY <1>1 DEF AddSibling, GemInv, CallInv, WriteInv
<1>3. c \in Calls /\ c \in 1 .. 9 /\ c \in Nat
  BY <1>1, CallPlaces DEF Calls
<1>4. PICK i \in 1 .. c - 1 :
        WriteEntry(ReadEntry(i).index, [ReadEntry(i) EXCEPT !.sibling = c])
  <2> DEFINE child == Child(ParentIndex)
             last == CHOOSE k \in DOMAIN child :
                       child[k] # NotFound /\ child[k + 1] = NotFound
  <2>1. child[last] \in 1 .. c - 1
    BY <1>1, <1>2, LastChild
  <2>2. WriteEntry(ReadEntry(child[last]).index,
                   [ReadEntry(child[last]) EXCEPT !.sibling = at.free])
    BY DEF AddSibling
  <2> HIDE DEF child, last
  <2> QED
    BY <1>2, <2>1, <2>2
<1>5. PICK e : e = [ReadEntry(i) EXCEPT !.sibling = c]
  OBVIOUS
<1>6. i \in 0 .. LastEntry /\ i # 0 /\ i # c /\ i \in 1 .. LastEntry
  BY <1>2, <1>3
<1>7. Finished(ReadEntry(i), i) /\ ReadEntry(i).index = i
  BY <1>1, <1>2 DEF CallsDone, Finished
<1>8. ReadEntry(i) \in EntryType
  BY <1>6, EntryTypes
<1>9. /\ e \in EntryType /\ e.sibling = c
      /\ e.used = ReadEntry(i).used /\ e.dir = ReadEntry(i).dir
      /\ e.name = ReadEntry(i).name /\ e.index = ReadEntry(i).index
      /\ e.start = ReadEntry(i).start /\ e.size = ReadEntry(i).size
  BY <1>3, <1>5, <1>8 DEF EntryType
<1>10. Finished(e, i)
  <2>1. c \in i + 1 .. LastEntry
    BY <1>2, <1>3
  <2> QED
    BY <1>7, <1>9, <2>1 DEF Finished
<1>11. WriteEntry(i, e)
  BY <1>4, <1>5, <1>7
<1>12. /\ chain' = chain /\ fbb' = fbb /\ at' = at /\ made' = made /\ pc' = "entry"
       /\ fd' = fd /\ bounce' = bounce
  BY DEF AddSibling
<1>13. OnlyEntry(i, e)
  BY <1>6, <1>9, <1>11, <1>12, EntryWritten
<1>14. ChainInv' /\ EntriesInv'
  BY <1>6, <1>10, <1>12, <1>13, OneEntryInv
<1>15. CallsDone'
  BY <1>2, <1>6, <1>10, <1>12, <1>13, OneEntryDone
<1>16. LastEntry' = LastEntry /\ ReadEntry(c)' = ReadEntry(c)
  <2>1. c \in 0 .. LastEntry
    BY <1>2, <1>3
  <2> QED
    BY <1>6, <1>13, <2>1 DEF OnlyEntry
<1>17. StateInv'
  BY <1>12, <1>13, <1>16 DEF GemInv, StateInv, OnlyEntry
<1>18. disk'[1] = disk[1]
  <2>1. GetEntryBlock(i) # 1 /\ 1 \in Block
    BY <1>6, Indices, GemFSAssumption DEF Block
  <2> QED
    BY <1>13, <2>1 DEF OnlyEntry
<1>19. RootInv'
  BY <1>2, <1>3, <1>12, <1>16, <1>18, SameRoot
<1>20. CallInv'
  <2>1. Raw(ReadEntry(at.call))' /\ ReadEntry(at.call)'.index = at'.call
    BY <1>1, <1>2, <1>12, <1>16 DEF Raw
  <2> QED
    BY <1>1, <1>2, <1>12, <1>15, <1>16, <2>1 DEF CallInv, Call
<1>21. WriteInv'
  BY <1>1, <1>2, <1>12 DEF WriteInv, MarkedBelow
<1> QED
  BY <1>12, <1>14, <1>17, <1>19, <1>20, <1>21
     DEF GemInv, ReserveInv, DataInv, FindInv, LinkInv, RestInv, PcInv

----------------------------------------------------------------------------
(* Writing the new entry                                                   *)

\* GemFS_mkdir writes the entry over the blank one, and the chain keeps its length.
LEMMA WriteNewEntryInv == ASSUME GemInv, RoomOnDisk, WriteNewEntry PROVE GemInv'
<1>1. PICK c : c = at.call
  OBVIOUS
<1>2. /\ CallsDone /\ LastEntry = c /\ (~Call.dir => at.start = Base[c])
      /\ at.free = c /\ MarkedBelow(EntryBlock(c) + 2) /\ pc = "entry"
  BY <1>1 DEF WriteNewEntry, GemInv, CallInv, WriteInv
<1>3. c \in Calls /\ c \in 1 .. 9 /\ c \in Nat
  BY <1>1, CallPlaces DEF Calls
<1>4. c \in 1 .. LastEntry /\ c \in 0 .. LastEntry /\ c # 0
  BY <1>2, <1>3
<1>5. PICK e : e = [Zeros EXCEPT !.used = TRUE, !.dir = Call.dir, !.index = c,
                                 !.parent = ParentIndex, !.name = Call.name,
                                 !.data = "entry"]
  OBVIOUS
<1>6. /\ Call.dir = Layout[c].dir /\ Call.name = Layout[c].name
      /\ Layout[c].dir \in BOOLEAN /\ Layout[c].name \in Names
      /\ Layout[c].home = 0 \/ ~Layout[c].dir
  BY <1>1, <1>3, LayoutFacts, SizeFacts DEF Call
<1>7. e \in EntryType
  <2>1. 0 \in Block /\ "entry" \in Data /\ 0 \in 0 .. PROGRAM_SIZE /\ 0 \in Nat
    BY GemFSAssumption DEF Block, Data
  <2>2. ParentIndex \in Nat
    BY <1>1, <1>2, <1>3, ParentFacts
  <2> QED
    BY <1>3, <1>5, <1>6, <2>1, <2>2 DEF Zeros, EntryType
<1>8. e.used = TRUE
  BY <1>5 DEF Zeros
<1>9. e.dir = Layout[c].dir /\ e.name = Layout[c].name /\ e.index = c
  BY <1>5, <1>6 DEF Zeros
<1>10. e.sibling = 0 /\ e.start = 0 /\ e.size = 0
  BY <1>5 DEF Zeros
<1>11. Finished(e, c)
  <2>1. e.used
    BY <1>8
  <2>2. 0 \in 0 .. LastEntry
    BY <1>2, <1>3
  <2> QED
    BY <1>9, <1>10, <2>1, <2>2, Zenon DEF Finished
<1>12. chain' = chain
  <2>1. chain \in Seq(Block) /\ Len(chain) = c
    BY <1>2 DEF GemInv, StateInv, LastEntry
  <2>2. SubSeq(chain, 1, Len(chain)) = chain
    BY <2>1, SubSeqFull
  <2> QED
    BY <1>2, <2>1, <2>2 DEF WriteNewEntry
<1>13. /\ fbb' = fbb /\ at' = at /\ made' = made /\ pc' = "parent"
       /\ fd' = fd /\ bounce' = bounce /\ WriteEntry(c, e)
  BY <1>2, <1>5 DEF WriteNewEntry
<1>14. OnlyEntry(c, e)
  BY <1>4, <1>7, <1>12, <1>13, EntryWritten
<1>15. ChainInv' /\ EntriesInv'
  BY <1>4, <1>11, <1>12, <1>13, <1>14, OneEntryInv
<1>16. CallsDone'
  BY <1>1, <1>2, <1>4, <1>11, <1>12, <1>13, <1>14, OneEntryDone
<1>17. LastEntry' = LastEntry /\ ReadEntry(c)' = e
  BY <1>4, <1>14 DEF OnlyEntry
<1>18. StateInv'
  BY <1>12, <1>13, <1>14, <1>17 DEF GemInv, StateInv, OnlyEntry
<1>19. disk'[1] = disk[1]
  <2>1. GetEntryBlock(c) # 1 /\ 1 \in Block
    BY <1>4, Indices, GemFSAssumption DEF Block
  <2> QED
    BY <1>14, <2>1 DEF OnlyEntry
<1>20. RootInv'
  BY <1>2, <1>3, <1>13, <1>17, <1>19, SameRoot
<1>21. Finished(ReadEntry(at.call), at.call)'
  <2>1. Finished(e, c)'
    BY <1>11, <1>17 DEF Finished
  <2> QED
    BY <1>1, <1>13, <1>17, <2>1 DEF Finished
<1>22. CallInv'
  BY <1>1, <1>2, <1>10, <1>13, <1>16, <1>17, <1>21 DEF CallInv, Call
<1>23. WriteInv'
  BY <1>1, <1>2, <1>13 DEF WriteInv, MarkedBelow
<1> QED
  BY <1>13, <1>15, <1>18, <1>20, <1>22, <1>23
     DEF GemInv, ReserveInv, DataInv, FindInv, LinkInv, RestInv, PcInv

----------------------------------------------------------------------------
(* The call returns                                                        *)

\* A call begins with zeros in its locals.
LEMMA StartFacts ==
  ASSUME NEW c \in Calls, LastEntry' \in Nat
  PROVE  /\ Start(c) \in [call : Calls, k : Nat, free : 0 .. LastEntry', start : Block,
                          block : Block]
         /\ Start(c).call = c /\ Start(c).k = 0
<1>1. 0 \in Block /\ 0 \in 0 .. LastEntry'
  BY GemFSAssumption DEF Block
<1> QED
  BY <1>1 DEF Start

\* The entries as the call that made entry c leaves them.
CallEnds(c) ==
  /\ disk \in [Block -> EntryType] /\ ChainInv /\ EntriesInv
  /\ \E s \in 0 .. LastEntry : disk[1] = [MainEntry EXCEPT !.start = s]
  /\ LastEntry = c /\ MarkedBelow(EntryBlock(c) + 2)
  /\ \A i \in 1 .. c : Finished(ReadEntry(i), i)

\* Links lead to no entry behind the last, so not to what the next call makes.
LEMMA EndsUnlinked ==
  ASSUME NEW c \in Calls, CallEnds(c)'
  PROVE  /\ disk'[1].start < c + 1
         /\ \A i \in 1 .. c : ReadEntry(i)'.sibling < c + 1
         /\ \A i \in 1 .. c : Layout[i].dir => ReadEntry(i)'.start < c + 1
<1>1. LastEntry' = c /\ c \in Nat
  BY DEF CallEnds, Calls
<1>2. disk'[1].start < c + 1
  <2>1. PICK s \in 0 .. LastEntry' : disk'[1] = [MainEntry EXCEPT !.start = s]
    BY DEF CallEnds
  <2>2. disk'[1].start = s
    BY <2>1, MainEntryType DEF EntryType
  <2> QED
    BY <1>1, <2>2
<1>3. ASSUME NEW i \in 1 .. c
      PROVE  ReadEntry(i)'.sibling < c + 1
  <2>1. Finished(ReadEntry(i), i)'
    BY DEF CallEnds
  <2>2. ReadEntry(i)'.sibling # 0 => ReadEntry(i)'.sibling \in i + 1 .. LastEntry'
    BY <2>1 DEF Finished
  <2> QED
    BY <1>1, <2>2
<1>4. ASSUME NEW i \in 1 .. c, Layout[i].dir
      PROVE  ReadEntry(i)'.start < c + 1
  <2>1. Finished(ReadEntry(i), i)'
    BY DEF CallEnds
  <2>2. ReadEntry(i)'.start \in 0 .. LastEntry'
    BY <1>4, <2>1 DEF Finished
  <2> QED
    BY <1>1, <2>2
<1> QED
  BY <1>2, <1>3, <1>4

\* GemFS_mkdir or GemFS_CreateFile returns, and the next call or the kernel goes on.
LEMMA ReturnInv ==
  ASSUME GemInv, RoomOnDisk, CallsDone, NEW c \in Calls, c = at.call, at.free = c,
         Return, CallEnds(c)', chain' = chain, fbb' = fbb, fd' = fd, bounce' = bounce,
         LastEntry = c
  PROVE  GemInv'
<1>1. c \in Nat /\ c \in 1 .. 9 /\ LastEntry' = c
  BY DEF Calls, CallEnds
<1>2. made \in Seq(1 .. c) /\ Len(made) = c - 1
  BY DEF CallsDone, GemInv, StateInv
<1>3. made' \in Seq(1 .. c) /\ Len(made') = c /\ \A i \in 1 .. c : made'[i] = i
  <2>1. made' = Append(made, c) /\ c \in 1 .. c
    BY <1>1 DEF Return
  <2>2. \A i \in 1 .. c - 1 : made[i] = i
    BY DEF CallsDone
  <2>3. made' \in Seq(1 .. c) /\ Len(made') = c
    BY <1>1, <1>2, <2>1, AppendProperties
  <2>4. ASSUME NEW i \in 1 .. c PROVE made'[i] = i
    BY <1>1, <1>2, <2>1, <2>2
  <2> QED
    BY <2>3, <2>4
<1>4. /\ disk' \in [Block -> EntryType] /\ ChainInv' /\ EntriesInv'
      /\ \E s \in 0 .. LastEntry' : disk'[1] = [MainEntry EXCEPT !.start = s]
  BY DEF CallEnds
<1>5. /\ chain' \in Seq(Block) /\ fd' \in {NotFound} \cup 0 .. LastEntry'
      /\ bounce' \in [1 .. BOUNCE -> Data]
  BY <1>1 DEF GemInv, StateInv
<1>6. CASE c = 9
  <2>1. pc' = "serve" /\ at' = Start(1)
    BY <1>6, LayoutCalls DEF Return
  <2>2. StateInv'
    <3>1. 1 \in Calls /\ LastEntry' \in Nat
      BY <1>1 DEF Calls
    <3> QED
      BY <1>1, <1>3, <1>4, <1>5, <2>1, <3>1, StartFacts DEF StateInv
  <2>3. RootInv'
    BY <1>4, <2>1 DEF RootInv
  <2> QED
    BY <1>4, <2>1, <2>2, <2>3
       DEF GemInv, ReserveInv, DataInv, FindInv, LinkInv, WriteInv, CallInv, RestInv, PcInv
<1>7. CASE c # 9
  <2>1. PICK d : d = c + 1
    OBVIOUS
  <2>2. d \in Calls /\ d \in Nat /\ d - 1 = c
    BY <1>1, <1>7, <2>1 DEF Calls
  <2>3. /\ pc' = IF Layout[d].dir THEN "find" ELSE "data"
        /\ at' = Start(d) /\ at'.call = d /\ at'.k = 0
    BY <1>1, <1>7, <2>1, <2>2, LayoutCalls, StartFacts, SMTT(40) DEF Return, FirstWrite
  <2>4. StateInv'
    BY <1>1, <1>3, <1>4, <1>5, <2>2, <2>3, StartFacts DEF StateInv
  <2>5. RootInv'
    BY <1>4, <2>3 DEF RootInv
  <2>6. MarkedBelow(Base[d])' /\ Base[d] \in Nat
        /\ EntryBlock(d) = Base[d] + Layout[d].size
    <3>1. Base[c + 1] = EntryBlock(c) + 2
      BY <1>7, Places
    <3>2. fbb' = 0 .. (EntryBlock(c) + 2) - 1
      BY DEF CallEnds, MarkedBelow
    <3> QED
      BY <2>1, <2>2, <3>1, <3>2, Places DEF MarkedBelow
  <2>7. DataInv'
    <3>1. SUFFICES ASSUME pc' = "data"
                   PROVE  /\ ~Call'.dir /\ at'.k < Call'.size
                          /\ at'.k > 0 => at'.start = Base[at'.call]
                          /\ MarkedBelow(Base[at.call] + at.k)'
      BY DEF DataInv
    <3>2. ~Layout[d].dir /\ Call' = Layout[d]
      BY <2>3, <3>1 DEF Call
    <3>3. Layout[d].size >= 1 /\ Layout[d].size \in Nat
      BY <2>2, <3>2, SizeFacts, GemFSAssumption
    <3>4. fbb' = 0 .. Base[d] - 1 /\ Base[d] + 0 = Base[d]
      BY <2>6 DEF MarkedBelow
    <3> QED
      BY <2>3, <3>2, <3>3, <3>4 DEF MarkedBelow
  <2>8. FindInv'
    <3>1. SUFFICES ASSUME pc' = "find"
                   PROVE  LastEntry' = at'.call - 1 /\ MarkedBelow(EntryBlock(at.call))'
      BY DEF FindInv
    <3>2. Layout[d].size = 0
      BY <2>2, <2>3, <3>1, SizeFacts
    <3>3. EntryBlock(d) = Base[d]
      BY <2>6, <3>2
    <3>4. MarkedBelow(EntryBlock(at.call))'
      BY <2>3, <2>6, <3>3 DEF MarkedBelow, EntryBlock
    <3> QED
      BY <1>1, <2>2, <2>3, <3>4
  <2>9. CallsDone'
    <3>1. \A i \in 1 .. c : Finished(ReadEntry(i), i)' /\ i <= c
      BY <1>1 DEF CallEnds
    <3> QED
      BY <1>1, <1>3, <2>2, <2>3, <3>1 DEF CallsDone
  <2>10. Unlinked'
    <3>1. /\ disk'[1].start < c + 1
          /\ \A i \in 1 .. c : ReadEntry(i)'.sibling < c + 1
          /\ \A i \in 1 .. c : Layout[i].dir => ReadEntry(i)'.start < c + 1
      BY EndsUnlinked
    <3> QED
      BY <2>1, <2>2, <2>3, <3>1 DEF Unlinked
  <2>11. CallInv'
    <3>1. pc' = "data" \/ (pc' = "find" /\ Call'.dir)
      BY <2>3 DEF Call
    <3>2. LastEntry' = at'.call - 1 /\ LastEntry' # at'.call
      BY <1>1, <2>2, <2>3
    <3> QED
      BY <2>9, <2>10, <3>1, <3>2 DEF CallInv
  <2>12. pc' \in {"data", "find"}
    BY <2>3
  <2> QED
    BY <1>4, <2>4, <2>5, <2>7, <2>8, <2>11, <2>12
       DEF GemInv, ReserveInv, LinkInv, WriteInv, RestInv, PcInv
<1> QED
  BY <1>6, <1>7

----------------------------------------------------------------------------
(* The parent and the blocks                                               *)

\* Writing an entry keeps the others finished, and itself if what is written is.
LEMMA AllFinished ==
  ASSUME GemInv, RoomOnDisk, NEW i \in 0 .. LastEntry, NEW e, OnlyEntry(i, e),
         chain' = chain, fbb' = fbb, i # 0 => Finished(e, i),
         NEW n \in 0 .. LastEntry, \A j \in 1 .. n : Finished(ReadEntry(j), j)
  PROVE  \A j \in 1 .. n : Finished(ReadEntry(j), j)'
<1> SUFFICES ASSUME NEW j \in 1 .. n PROVE Finished(ReadEntry(j), j)'
  OBVIOUS
<1>1. j \in 0 .. LastEntry /\ j # 0 /\ j \in 1 .. LastEntry
  BY Indices
<1>2. CASE j = i
  <2>1. Finished(e, j)'
    BY <1>1, <1>2 DEF Finished, OnlyEntry
  <2>2. ReadEntry(j)' = e
    BY <1>1, <1>2 DEF OnlyEntry
  <2> QED
    BY <2>1, <2>2 DEF Finished
<1>3. CASE j # i
  BY <1>1, <1>3, OneEntryInv
<1> QED
  BY <1>2, <1>3

\* All entries up to the current one are finished once it is written.
LEMMA AllDone ==
  ASSUME GemInv, RoomOnDisk, pc \in {"parent", "start", "home", "message"}
  PROVE  /\ CallsDone /\ LastEntry = at.call /\ at.free = at.call
         /\ MarkedBelow(EntryBlock(at.call) + 2)
         /\ at.call \in Calls /\ at.call \in Nat
         /\ at.call \in 1 .. LastEntry /\ at.call \in 0 .. LastEntry
         /\ ~Call.dir => at.start = Base[at.call]
         /\ \A j \in 1 .. at.call : Finished(ReadEntry(j), j)
<1>1. /\ CallsDone /\ LastEntry = at.call /\ at.free = at.call
      /\ MarkedBelow(EntryBlock(at.call) + 2) /\ Finished(ReadEntry(at.call), at.call)
      /\ ~Call.dir => at.start = Base[at.call]
  BY DEF GemInv, CallInv, WriteInv
<1>2. at.call \in Calls /\ at.call \in 1 .. 9 /\ at.call \in Nat
  BY CallPlaces DEF Calls
<1>3. at.call \in 1 .. LastEntry /\ at.call \in 0 .. LastEntry
  BY <1>1, <1>2
<1>4. ASSUME NEW j \in 1 .. at.call PROVE Finished(ReadEntry(j), j)
  <2>1. j = at.call \/ j \in 1 .. at.call - 1
    BY <1>2
  <2> QED
    BY <1>1, <2>1 DEF CallsDone
<1> QED
  BY <1>1, <1>2, <1>3, <1>4

\* A directory gets its first child and is otherwise what it was.
LEMMA ParentWritten ==
  ASSUME GemInv, RoomOnDisk, pc = "parent", NEW c, c = at.call, NEW p, p = ParentIndex,
         NEW e, e = [ReadEntry(p) EXCEPT !.start = IF @ = 0 THEN c ELSE @]
  PROVE  /\ e \in EntryType /\ p \in 0 .. c - 1 /\ p \in 0 .. LastEntry
         /\ p # 0 => Finished(e, p)
         /\ p = 0 => \E s \in 0 .. LastEntry : e = [MainEntry EXCEPT !.start = s]
<1>1. CallsDone /\ LastEntry = c /\ c \in Calls /\ c \in 1 .. 9 /\ c \in 0 .. LastEntry
  BY AllDone DEF Calls
<1>2. p \in 0 .. c - 1 /\ p \in 0 .. LastEntry
  BY ParentFacts, <1>1
<1>3. ReadEntry(p) \in EntryType
  BY <1>2, EntryTypes
<1>4. c \in Block
  <2>1. EntryBlock(c) \in Block /\ 9 <= BLOCKS
    BY <1>1, CallPlaces, GemFSAssumption DEF RoomOnDisk, Limit
  <2> QED
    BY <1>1, <2>1, GemFSAssumption DEF Block, RoomOnDisk, Limit
<1>5. PICK s : s = IF ReadEntry(p).start = 0 THEN c ELSE ReadEntry(p).start
  OBVIOUS
<1>6. e = [ReadEntry(p) EXCEPT !.start = s]
  BY <1>5
<1>7. s \in Block
  BY <1>3, <1>4, <1>5 DEF EntryType
<1>8. e \in EntryType
  BY <1>3, <1>6, <1>7 DEF EntryType
<1>9. ASSUME p # 0 PROVE Finished(e, p)
  <2>1. Finished(ReadEntry(p), p) /\ Layout[p].dir
    BY <1>1, <1>9, ParentFacts
  <2>2. /\ e.used = ReadEntry(p).used /\ e.dir = ReadEntry(p).dir
        /\ e.name = ReadEntry(p).name /\ e.index = ReadEntry(p).index
        /\ e.sibling = ReadEntry(p).sibling /\ e.size = ReadEntry(p).size /\ e.start = s
    BY <1>3, <1>6 DEF EntryType
  <2>3. ReadEntry(p).dir /\ ReadEntry(p).start \in 0 .. LastEntry
    BY <2>1 DEF Finished
  <2>4. s \in 0 .. LastEntry
    BY <1>1, <1>5, <2>3
  <2> QED
    BY <2>1, <2>2, <2>3, <2>4, Zenon DEF Finished
<1>10. ASSUME p = 0 PROVE \E x \in 0 .. LastEntry : e = [MainEntry EXCEPT !.start = x]
  <2>1. PICK r \in 0 .. LastEntry : disk[1] = [MainEntry EXCEPT !.start = r]
    BY RootEntry
  <2>2. ReadEntry(p) = [MainEntry EXCEPT !.start = r]
    BY <1>10, <2>1, Indices
  <2>3. ReadEntry(p).start = r
    BY <2>2, MainEntryType DEF EntryType
  <2>4. s \in 0 .. LastEntry
    BY <1>1, <1>5, <2>3
  <2>5. e = [MainEntry EXCEPT !.start = s]
    BY <1>6, <2>2, MainEntryType DEF EntryType
  <2> QED
    BY <2>4, <2>5
<1> QED
  BY <1>2, <1>8, <1>9, <1>10

\* GemFS_mkdir ends; for a file GemFS_CreateFile goes on.
LEMMA WriteParentInv == ASSUME GemInv, RoomOnDisk, WriteParent PROVE GemInv'
<1>1. PICK c, p, e : /\ c = at.call /\ p = ParentIndex
                     /\ e = [ReadEntry(p) EXCEPT !.start = IF @ = 0 THEN c ELSE @]
  OBVIOUS
<1>2. /\ CallsDone /\ LastEntry = c /\ at.free = c /\ MarkedBelow(EntryBlock(c) + 2)
      /\ c \in Calls /\ c \in Nat /\ c \in 1 .. LastEntry /\ c \in 0 .. LastEntry
      /\ (~Call.dir => at.start = Base[c]) /\ \A j \in 1 .. c : Finished(ReadEntry(j), j)
      /\ pc = "parent"
  BY <1>1, AllDone DEF WriteParent
<1>3. /\ e \in EntryType /\ p \in 0 .. c - 1 /\ p \in 0 .. LastEntry
      /\ p # 0 => Finished(e, p)
      /\ p = 0 => \E s \in 0 .. LastEntry : e = [MainEntry EXCEPT !.start = s]
  BY <1>1, <1>2, ParentWritten
<1>4. /\ chain' = chain /\ fbb' = fbb /\ fd' = fd /\ bounce' = bounce /\ WriteEntry(p, e)
      /\ IF Call.dir THEN Return ELSE pc' = "start" /\ UNCHANGED <<at, made>>
  BY <1>1, <1>2 DEF WriteParent
<1>5. OnlyEntry(p, e)
  BY <1>3, <1>4, EntryWritten
<1>6. ChainInv' /\ EntriesInv' /\ \A j \in 1 .. c : Finished(ReadEntry(j), j)'
  BY <1>2, <1>3, <1>4, <1>5, OneEntryInv, AllFinished
<1>7. LastEntry' = c /\ disk' \in [Block -> EntryType] /\ ReadEntry(c)' = ReadEntry(c)
  <2>1. p # c
    BY <1>2, <1>3
  <2> QED
    BY <1>2, <1>5, <2>1 DEF OnlyEntry
<1>8. \E s \in 0 .. LastEntry' : disk'[1] = [MainEntry EXCEPT !.start = s]
  <2>1. CASE p = 0
    <3>1. disk'[1] = e
      BY <1>5, <2>1, Indices DEF OnlyEntry
    <3> QED
      BY <1>2, <1>3, <1>7, <2>1, <3>1
  <2>2. CASE p # 0
    <3>1. p \in 1 .. LastEntry
      BY <1>2, <1>3, <2>2
    <3>2. GetEntryBlock(p) # 1 /\ 1 \in Block
      BY <3>1, Indices, GemFSAssumption DEF Block
    <3>3. disk'[1] = disk[1]
      BY <1>5, <3>2 DEF OnlyEntry
    <3> QED
      BY <1>2, <1>7, <3>3, RootEntry
  <2> QED
    BY <2>1, <2>2
<1>9. CASE Call.dir
  <2>1. CallEnds(c)'
    BY <1>2, <1>4, <1>6, <1>7, <1>8 DEF CallEnds, MarkedBelow, EntryBlock
  <2> QED
    BY <1>1, <1>2, <1>4, <1>9, <2>1, ReturnInv
<1>10. CASE ~Call.dir
  <2>1. pc' = "start" /\ at' = at /\ made' = made /\ Call' = Call
    BY <1>4, <1>10 DEF Call
  <2>2. CallsDone'
    BY <1>1, <1>2, <1>3, <1>4, <1>5, <2>1, OneEntryDone
  <2>3. StateInv'
    BY <1>2, <1>4, <1>7, <2>1 DEF GemInv, StateInv
  <2>4. RootInv'
    BY <1>8, <2>1 DEF RootInv
  <2>5. Finished(ReadEntry(at.call), at.call)'
    BY <1>1, <1>2, <1>6, <2>1 DEF Finished
  <2>6. ReadEntry(at.call)'.start = 0 /\ ReadEntry(at.call)'.size = 0
    BY <1>1, <1>2, <1>7, <2>1 DEF GemInv, CallInv
  <2>7. CallInv'
    BY <1>1, <1>2, <1>7, <2>1, <2>2, <2>5, <2>6 DEF CallInv
  <2>8. WriteInv'
    BY <1>1, <1>2, <1>4, <1>10, <2>1 DEF WriteInv, MarkedBelow
  <2> QED
    BY <1>6, <2>1, <2>3, <2>4, <2>7, <2>8
       DEF GemInv, ReserveInv, DataInv, FindInv, LinkInv, RestInv, PcInv
<1> QED
  BY <1>9, <1>10

\* An entry with its blocks.
WithBlocks(entry, s, n) == [entry EXCEPT !.start = s, !.size = n]

\* The blocks the call marked, or the program's home.
FilePlace(s, c) == s = Base[c] \/ (Layout[c].home # 0 /\ s = Layout[c].home)

\* Giving a file its blocks leaves it finished, and the main entry alone.
LEMMA FileWritten ==
  ASSUME GemInv, RoomOnDisk, pc \in {"start", "home"}, NEW c, c = at.call, NEW s \in Block,
         NEW e, e = WithBlocks(ReadEntry(c), s, Call.size), FilePlace(s, c),
         WriteEntry(c, e), chain' = chain, fbb' = fbb
  PROVE  /\ OnlyEntry(c, e) /\ Finished(e, c) /\ ChainInv' /\ EntriesInv'
         /\ \A j \in 1 .. c : Finished(ReadEntry(j), j)'
         /\ e.start = s /\ e.size = Call.size
         /\ \E x \in 0 .. LastEntry' : disk'[1] = [MainEntry EXCEPT !.start = x]
         /\ disk'[1] = disk[1] /\ LastEntry' = LastEntry /\ ReadEntry(c)' = e
         /\ disk' \in [Block -> EntryType]
<1>1. /\ LastEntry = c /\ c \in Calls /\ c \in Nat /\ c \in 1 .. LastEntry
      /\ c \in 0 .. LastEntry /\ \A j \in 1 .. c : Finished(ReadEntry(j), j)
  BY AllDone
<1>2. ReadEntry(c) \in EntryType /\ Call.size \in 0 .. PROGRAM_SIZE /\ Call = Layout[c]
  BY <1>1, EntryTypes, SizeFacts DEF Call
<1>3. e \in EntryType /\ e.start = s /\ e.size = Call.size
  BY <1>2 DEF EntryType, WithBlocks
<1>4. /\ e.used = ReadEntry(c).used /\ e.dir = ReadEntry(c).dir
      /\ e.name = ReadEntry(c).name /\ e.index = ReadEntry(c).index
      /\ e.sibling = ReadEntry(c).sibling
  BY <1>2 DEF EntryType, WithBlocks
<1>5. Finished(ReadEntry(c), c) /\ ~ReadEntry(c).dir
  <2>1. ~Call.dir
    BY DEF GemInv, WriteInv
  <2>2. Finished(ReadEntry(c), c)
    BY <1>1
  <2> QED
    BY <1>2, <2>1, <2>2 DEF Finished
<1>6. Finished(e, c)
  BY <1>2, <1>3, <1>4, <1>5 DEF Finished, FilePlace
<1>7. OnlyEntry(c, e)
  BY <1>1, <1>3, EntryWritten
<1>8. ChainInv' /\ EntriesInv' /\ \A j \in 1 .. c : Finished(ReadEntry(j), j)'
  BY <1>1, <1>6, <1>7, OneEntryInv, AllFinished
<1>9. disk'[1] = disk[1]
  <2>1. GetEntryBlock(c) # 1 /\ 1 \in Block
    BY <1>1, Indices, GemFSAssumption DEF Block
  <2> QED
    BY <1>7, <2>1 DEF OnlyEntry
<1>10. LastEntry' = LastEntry /\ ReadEntry(c)' = e /\ disk' \in [Block -> EntryType]
  BY <1>1, <1>7 DEF OnlyEntry
<1>11. \E x \in 0 .. LastEntry' : disk'[1] = [MainEntry EXCEPT !.start = x]
  BY <1>9, <1>10, RootEntry
<1> QED
  BY <1>3, <1>6, <1>7, <1>8, <1>9, <1>10, <1>11

\* GemFS_CreateFile writes the blocks it marked into the entry.
LEMMA WriteStartInv == ASSUME GemInv, RoomOnDisk, WriteStart PROVE GemInv'
<1>1. PICK c, s : c = at.call /\ s = at.start
  OBVIOUS
<1>13. PICK e : e = WithBlocks(ReadEntry(c), s, Call.size)
  OBVIOUS
<1>2. /\ CallsDone /\ LastEntry = c /\ at.free = c /\ MarkedBelow(EntryBlock(c) + 2)
      /\ c \in Calls /\ c \in Nat /\ c \in 1 .. LastEntry /\ c \in 0 .. LastEntry
      /\ pc = "start" /\ ~Call.dir /\ at.start = Base[c]
  BY <1>1, AllDone DEF WriteStart, GemInv, WriteInv
<1>3. s \in Block
  BY <1>1 DEF GemInv, StateInv
<1>4. /\ chain' = chain /\ fbb' = fbb /\ at' = at /\ made' = made
      /\ fd' = fd /\ bounce' = bounce /\ WriteEntry(c, e)
      /\ pc' = IF Call.home # 0 THEN "home" ELSE "message"
  BY <1>1, <1>13, <1>2 DEF WriteStart, WithBlocks
<1>5. /\ OnlyEntry(c, e) /\ Finished(e, c) /\ ChainInv' /\ EntriesInv'
      /\ \A j \in 1 .. c : Finished(ReadEntry(j), j)'
      /\ e.start = s /\ e.size = Call.size
      /\ \E x \in 0 .. LastEntry' : disk'[1] = [MainEntry EXCEPT !.start = x]
      /\ LastEntry' = LastEntry /\ ReadEntry(c)' = e /\ disk' \in [Block -> EntryType]
  <2>1. FilePlace(s, c)
    BY <1>1, <1>2 DEF FilePlace
  <2> QED
    BY <1>1, <1>13, <1>2, <1>3, <1>4, <2>1, FileWritten
<1>6. CallsDone'
  BY <1>1, <1>2, <1>4, <1>5, OneEntryDone
<1>7. StateInv'
  BY <1>4, <1>5 DEF GemInv, StateInv
<1>8. RootInv'
  BY <1>4, <1>5 DEF RootInv
<1>9. Call' = Call
  BY <1>4 DEF Call
<1>10. CallInv'
  <2>1. Finished(ReadEntry(at.call), at.call)'
    BY <1>1, <1>2, <1>4, <1>5 DEF Finished
  <2>2. ReadEntry(at.call)'.start = Base[c] /\ ReadEntry(at.call)'.size = Call'.size
    BY <1>1, <1>2, <1>4, <1>5, <1>9
  <2>3. pc' \in {"home", "message"}
    BY <1>4
  <2> QED
    BY <1>1, <1>2, <1>4, <1>5, <1>6, <2>1, <2>2, <2>3 DEF CallInv
<1>11. WriteInv'
  BY <1>1, <1>2, <1>4, <1>9 DEF WriteInv, MarkedBelow
<1>12. pc' \in {"home", "message"}
  BY <1>4
<1> QED
  BY <1>5, <1>7, <1>8, <1>10, <1>11, <1>12
     DEF GemInv, ReserveInv, DataInv, FindInv, LinkInv, RestInv, PcInv

\* GemFS_FormatPartition points a program at the image.
LEMMA WriteHomeInv == ASSUME GemInv, RoomOnDisk, WriteHome PROVE GemInv'
<1>1. PICK c, s : c = at.call /\ s = Call.home
  OBVIOUS
<1>13. PICK e : e = WithBlocks(ReadEntry(c), s, Call.size)
  OBVIOUS
<1>2. /\ CallsDone /\ LastEntry = c /\ at.free = c /\ MarkedBelow(EntryBlock(c) + 2)
      /\ c \in Calls /\ c \in Nat /\ c \in 1 .. LastEntry /\ c \in 0 .. LastEntry
      /\ pc = "home" /\ s # 0 /\ s = Layout[c].home /\ ReadEntry(c).size = Call.size
  BY <1>1, AllDone DEF WriteHome, GemInv, WriteInv, CallInv, Call
<1>3. s \in Block
  <2>1. s \in {Shell, Hello, ChudEdit}
    BY <1>2, LayoutFacts
  <2> QED
    BY <2>1, GemFSAssumption DEF Block
<1>4. e = [ReadEntry(c) EXCEPT !.start = s]
  BY <1>13, <1>2, EntryTypes DEF EntryType, WithBlocks
<1>5. /\ chain' = chain /\ fbb' = fbb /\ fd' = fd /\ bounce' = bounce
      /\ WriteEntry(c, e) /\ Return
  BY <1>1, <1>2, <1>4 DEF WriteHome
<1>6. /\ ChainInv' /\ EntriesInv' /\ \A j \in 1 .. c : Finished(ReadEntry(j), j)'
      /\ \E x \in 0 .. LastEntry' : disk'[1] = [MainEntry EXCEPT !.start = x]
      /\ LastEntry' = LastEntry /\ disk' \in [Block -> EntryType]
  <2>1. FilePlace(s, c)
    BY <1>2 DEF FilePlace
  <2> QED
    BY <1>1, <1>13, <1>2, <1>3, <1>5, <2>1, FileWritten
<1>7. CallEnds(c)'
  BY <1>2, <1>5, <1>6 DEF CallEnds, MarkedBelow, EntryBlock
<1> QED
  BY <1>1, <1>2, <1>5, <1>7, ReturnInv

----------------------------------------------------------------------------
(* What is written to files                                                *)

\* The blocks of a file hold no entry, and those the format uses are marked.
LEMMA FileBlocksAlone ==
  ASSUME GemInv, RoomOnDisk, NEW i \in 1 .. LastEntry, NEW b \in FileBlocks(i)
  PROVE  /\ b \in Block /\ b # 1
         /\ \A j \in 0 .. LastEntry : b # GetEntryBlock(j)
         /\ b \in 6 .. Limit - 1 => b \in fbb
<1>1. b \in Block /\ b \in Nat /\ 6 <= b
  BY FileBlockPlace
<1>2. ASSUME NEW j \in 1 .. LastEntry PROVE b # GetEntryBlock(j)
  <2>1. NoSharedBlocks
    BY InvNoShared
  <2>2. b \in BlocksOf(i) /\ GetEntryBlock(j) \in BlocksOf(j)
    BY DEF BlocksOf
  <2>3. CASE j = i
    BY <2>1, <2>3 DEF NoSharedBlocks
  <2>4. CASE j # i
    BY <2>1, <2>2, <2>4 DEF NoSharedBlocks
  <2> QED
    BY <2>3, <2>4
<1>3. ASSUME NEW j \in 0 .. LastEntry PROVE b # GetEntryBlock(j)
  <2>1. j = 0 \/ j \in 1 .. LastEntry
    BY Indices
  <2> QED
    BY <1>1, <1>2, <2>1, Indices
<1>4. ASSUME b \in 6 .. Limit - 1 PROVE b \in fbb
  <2>1. i \in Calls
    BY WhereFilesAre
  <2>2. Limit \in Nat /\ EntryBlock(i) \in Nat
    BY <2>1, Places
  <2>3. b < EntryBlock(i)
    BY <1>1, <1>4, <2>2, FileBlockPlace
  <2>4. 0 .. EntryBlock(i) \subseteq fbb
    BY DEF GemInv, ChainInv
  <2> QED
    BY <1>1, <2>2, <2>3, <2>4
<1> QED
  BY <1>1, <1>3, <1>4

\* So a write to a file leaves the entries as they are.
LEMMA OnlyFileWritten ==
  ASSUME GemInv, RoomOnDisk, NEW i \in 1 .. LastEntry, disk' \in [Block -> EntryType],
         \A b \in Block : b \notin FileBlocks(i) => disk'[b] = disk[b],
         chain' = chain, fbb' = fbb
  PROVE  /\ ChainInv' /\ EntriesInv' /\ LastEntry' = LastEntry /\ disk'[1] = disk[1]
         /\ \A j \in 1 .. LastEntry :
              Finished(ReadEntry(j), j) => Finished(ReadEntry(j), j)'
<1>1. LastEntry' = LastEntry /\ \A j : GetEntryBlock(j)' = GetEntryBlock(j)
  BY DEF LastEntry, GetEntryBlock
<1>2. disk'[1] = disk[1]
  <2>1. 1 \in Block /\ 1 \notin FileBlocks(i)
    BY FileBlocksAlone, GemFSAssumption DEF Block
  <2> QED
    BY <2>1
<1>3. ASSUME NEW j \in 0 .. LastEntry PROVE ReadEntry(j)' = ReadEntry(j)
  <2>1. GetEntryBlock(j) \in Block /\ GetEntryBlock(j) \notin FileBlocks(i)
    BY FileBlocksAlone, Indices
  <2> QED
    BY <1>1, <2>1 DEF ReadEntry
<1>4. ASSUME NEW b \in 6 .. Limit - 1, b \notin fbb PROVE disk'[b] = disk[b]
  <2>1. b \in Block
    BY GemFSAssumption DEF RoomOnDisk, Block, Limit
  <2> QED
    BY <1>4, <2>1, FileBlocksAlone
<1>5. ChainInv'
  BY <1>1, <1>4 DEF GemInv, ChainInv
<1>6. ASSUME NEW j \in 1 .. LastEntry, Finished(ReadEntry(j), j)
      PROVE  Finished(ReadEntry(j), j)'
  <2>1. ReadEntry(j)' = ReadEntry(j)
    BY <1>3, Indices
  <2> QED
    BY <1>1, <1>6, <2>1 DEF Finished
<1>7. EntriesInv'
  <2> SUFFICES ASSUME NEW j \in 1 .. LastEntry
               PROVE  \/ Raw(ReadEntry(j))' /\ ReadEntry(j)'.index \in {0, j}
                      \/ Finished(ReadEntry(j), j)'
    BY <1>1 DEF EntriesInv
  <2>1. ReadEntry(j)' = ReadEntry(j)
    BY <1>3, Indices
  <2>2. CASE Raw(ReadEntry(j)) /\ ReadEntry(j).index \in {0, j}
    BY <2>1, <2>2 DEF Raw
  <2> QED
    BY <1>6, <2>2 DEF GemInv, EntriesInv
<1> QED
  BY <1>1, <1>2, <1>5, <1>6, <1>7

\* GemFS_WriteFile writes the blocks of the entry it has found and no others.
LEMMA ExtentIsFile ==
  ASSUME GemInv, RoomOnDisk, NEW i \in 1 .. LastEntry, ~ReadEntry(i).dir
  PROVE  Extent(ReadEntry(i).start, ReadEntry(i).size) = FileBlocks(i)
<1>1. CASE IsFile(i)
  BY <1>1 DEF FileBlocks
<1>2. CASE ~IsFile(i)
  <2>1. ReadEntry(i).size \in Nat /\ ReadEntry(i).start \in Nat
    <3>1. ReadEntry(i) \in EntryType
      BY EntryTypes, Indices
    <3> QED
      BY <3>1, GemFSAssumption DEF EntryType, Block
  <2>2. ReadEntry(i).size = 0
    <3>1. CASE Raw(ReadEntry(i))
      BY <3>1 DEF Raw
    <3>2. CASE Finished(ReadEntry(i), i)
      <4>1. ReadEntry(i).used
        BY <3>2 DEF Finished
      <4> QED
        BY <1>2, <2>1, <4>1 DEF IsFile
    <3> QED
      BY <3>1, <3>2 DEF GemInv, EntriesInv
  <2> QED
    BY <1>2, <2>1, <2>2 DEF FileBlocks, Extent
<1> QED
  BY <1>1, <1>2

\* GemFS_FormatPartition writes the boot message and is done.
LEMMA WriteMessageInv == ASSUME GemInv, RoomOnDisk, WriteMessage PROVE GemInv'
<1>1. PICK c, b : c = at.call /\ b = Base[c]
  OBVIOUS
<1>2. /\ CallsDone /\ LastEntry = c /\ at.free = c /\ MarkedBelow(EntryBlock(c) + 2)
      /\ c \in Calls /\ c \in Nat /\ c \in 1 .. LastEntry
      /\ \A j \in 1 .. c : Finished(ReadEntry(j), j)
      /\ pc = "message" /\ ~Call.dir /\ ReadEntry(c).start = b
      /\ ReadEntry(c).size = Call.size
  BY <1>1, AllDone DEF WriteMessage, GemInv, WriteInv, CallInv
<1>3. b \in FileBlocks(c)
  <2>1. ~ReadEntry(c).dir
    BY <1>1, <1>2 DEF Finished, Call
  <2>2. Call.size \in Nat /\ Call.size >= 1 /\ b \in Nat
    BY <1>1, <1>2, SizeFacts, Places, GemFSAssumption DEF Call
  <2> QED
    BY <1>2, <2>1, <2>2, ExtentIsFile DEF Extent
<1>4. b \in Block
  BY <1>2, <1>3, FileBlocksAlone
<1>5. disk \in [Block -> EntryType]
  BY DEF GemInv, StateInv
<1>6. PICK e : e = [disk[b] EXCEPT !.data = "message"]
  OBVIOUS
<1>7. e \in EntryType
  <2>1. disk[b] \in EntryType /\ "message" \in Data
    BY <1>4, <1>5 DEF Data
  <2> QED
    BY <1>6, <2>1 DEF EntryType
<1>8. disk' = [disk EXCEPT ![b] = e]
  BY <1>2, <1>6 DEF WriteMessage
<1>9. disk' \in [Block -> EntryType] /\ \A x \in Block : x # b => disk'[x] = disk[x]
  BY <1>4, <1>5, <1>7, <1>8
<1>10. chain' = chain /\ fbb' = fbb /\ fd' = fd /\ bounce' = bounce /\ Return
  BY DEF WriteMessage
<1>11. /\ ChainInv' /\ EntriesInv' /\ LastEntry' = LastEntry /\ disk'[1] = disk[1]
       /\ \A j \in 1 .. c : Finished(ReadEntry(j), j)'
  BY <1>2, <1>3, <1>9, <1>10, OnlyFileWritten
<1>12. \E s \in 0 .. LastEntry' : disk'[1] = [MainEntry EXCEPT !.start = s]
  BY <1>2, <1>11, RootEntry
<1>13. CallEnds(c)'
  BY <1>2, <1>9, <1>10, <1>11, <1>12 DEF CallEnds, MarkedBelow, EntryBlock
<1> QED
  BY <1>1, <1>2, <1>10, <1>13, ReturnInv

----------------------------------------------------------------------------
(* The calls of programs                                                   *)

\* While programs run, the invariant is about what is on the disk.
LEMMA ServeInv ==
  ASSUME GemInv, RoomOnDisk, pc = "serve", pc' \in {"serve", "hung"}, at' = at,
         made' = made, chain' = chain, LastEntry' = LastEntry, StateInv', ChainInv',
         EntriesInv', disk'[1] = disk[1]
  PROVE  GemInv'
<1>1. RootInv'
  BY SameRoot, Indices
<1>2. RestInv'
  BY DEF GemInv, RestInv
<1> QED
  BY <1>1, <1>2
     DEF GemInv, ReserveInv, DataInv, FindInv, LinkInv, WriteInv, CallInv, PcInv

\* An unused descriptor is that of the root directory, which is refused.
LEMMA RootIsDirectory ==
  ASSUME GemInv, RoomOnDisk, pc = "serve"
  PROVE  ReadEntry(0).dir /\ ReadEntry(0).start \in 0 .. LastEntry
<1>1. PICK s \in 0 .. LastEntry : ReadEntry(0) = [MainEntry EXCEPT !.start = s]
  BY RootEntry, Indices
<1>2. MainEntry.dir = TRUE
  BY DEF MainEntry, Zeros
<1>3. ReadEntry(0).dir = MainEntry.dir /\ ReadEntry(0).start = s
  BY <1>1, MainEntryType DEF EntryType
<1> QED
  BY <1>2, <1>3

\* GemFS_WriteFile stores whole blocks of data.
LEMMA StoredTypes ==
  ASSUME GemInv, RoomOnDisk, NEW e \in EntryType, NEW buffer \in [1 .. BOUNCE -> Data]
  PROVE  /\ Stored(e, buffer) \in [Block -> EntryType]
         /\ \A b \in Block : b \notin Extent(e.start, e.size) => Stored(e, buffer)[b] = disk[b]
<1>1. disk \in [Block -> EntryType]
  BY DEF GemInv, StateInv
<1>2. Zeros \in EntryType
  BY ZerosType
<1>3. e.start \in Nat /\ Block \subseteq Nat
  BY GemFSAssumption DEF EntryType, Block
<1>4. ASSUME NEW b \in Block, b \in Extent(e.start, e.size)
      PROVE  [Zeros EXCEPT !.data = IF b - e.start < BOUNCE THEN buffer[b - e.start + 1]
                                    ELSE "junk"] \in EntryType
  <2>1. PICK d : d = IF b - e.start < BOUNCE THEN buffer[b - e.start + 1] ELSE "junk"
    OBVIOUS
  <2>2. b \in Nat /\ e.start <= b
    BY <1>3, <1>4 DEF Extent
  <2>3. d \in Data
    <3>1. CASE b - e.start < BOUNCE
      <4>1. b - e.start + 1 \in 1 .. BOUNCE
        BY <1>3, <2>2, <3>1, GemFSAssumption, SMTT(40)
      <4> QED
        BY <2>1, <3>1, <4>1
    <3>2. CASE ~(b - e.start < BOUNCE)
      BY <2>1, <3>2 DEF Data
    <3> QED
      BY <3>1, <3>2
  <2>4. [Zeros EXCEPT !.data = d] \in EntryType
    BY <1>2, <2>3 DEF EntryType
  <2> QED
    BY <2>1, <2>4
<1>5. ASSUME NEW b \in Block PROVE Stored(e, buffer)[b] \in EntryType
  <2>1. CASE b \in Extent(e.start, e.size)
    BY <1>4, <2>1 DEF Stored
  <2>2. CASE b \notin Extent(e.start, e.size)
    BY <1>1, <2>2 DEF Stored
  <2> QED
    BY <2>1, <2>2
<1>6. Stored(e, buffer) = [b \in Block |-> Stored(e, buffer)[b]]
  BY DEF Stored
<1>7. Stored(e, buffer) \in [Block -> EntryType]
  BY <1>5, <1>6
<1> QED
  BY <1>7 DEF Stored

\* write.
LEMMA WriteStepInv ==
  ASSUME GemInv, RoomOnDisk, ~WritesEmpty, NEW n \in Lengths, NEW text \in Texts,
         Write(n, text)
  PROVE  GemInv'
<1>1. PICK i : i = IF fd = NotFound THEN 0 ELSE fd
  OBVIOUS
<1>2. PICK e : e = ReadEntry(i)
  OBVIOUS
<1>3. /\ pc = "serve" /\ pc' = pc /\ at' = at /\ made' = made /\ chain' = chain
      /\ fbb' = fbb /\ fd' = fd
      /\ bounce' = [k \in 1 .. BOUNCE |-> IF k <= n THEN text ELSE bounce[k]]
      /\ e.dir => disk' = disk
      /\ ~e.dir => disk' = Stored(e, bounce')
  <2>1. /\ pc = "serve" /\ at' = at /\ made' = made /\ fd' = fd
        /\ bounce' = [k \in 1 .. BOUNCE |-> IF k <= n THEN text ELSE bounce[k]]
        /\ e.dir \/ e.size > 0
        /\ IF ~e.dir /\ e.size = 0 THEN Wiped(e)
           ELSE /\ disk' = IF e.dir THEN disk ELSE Stored(e, bounce')
                /\ UNCHANGED <<chain, fbb, pc>>
    BY <1>1, <1>2, Zenon DEF Write
  <2>2. ~(~e.dir /\ e.size = 0)
    BY <2>1, SMT
  <2> QED
    BY <2>1, <2>2
<1>4. i \in 0 .. LastEntry
  BY <1>1, Indices DEF GemInv, StateInv
<1>5. bounce' \in [1 .. BOUNCE -> Data]
  <2>1. text \in Data
    BY DEF Data
  <2>2. bounce \in [1 .. BOUNCE -> Data]
    BY DEF GemInv, StateInv
  <2> QED
    BY <1>3, <2>1, <2>2
<1>6. LastEntry' = LastEntry
  BY <1>3 DEF LastEntry
<1>7. CASE e.dir
  <2>1. StateInv'
    BY <1>3, <1>5, <1>6, <1>7 DEF GemInv, StateInv
  <2>2. ChainInv' /\ EntriesInv'
    <3>1. fbb' \subseteq 0 .. Limit - 1
      BY <1>3 DEF GemInv, ChainInv
    <3> QED
      BY <1>3, <1>7, <3>1, SameDisk
  <2> QED
    BY <1>3, <1>6, <1>7, <2>1, <2>2, ServeInv
<1>8. CASE ~e.dir
  <2>1. i \in 1 .. LastEntry
    <3>1. i # 0
      BY <1>2, <1>3, <1>8, RootIsDirectory
    <3> QED
      BY <1>4, <3>1, Indices
  <2>2. Extent(e.start, e.size) = FileBlocks(i)
    BY <1>2, <1>8, <2>1, ExtentIsFile
  <2>3. PICK buffer : buffer = bounce'
    OBVIOUS
  <2>4. e \in EntryType
    BY <1>2, <1>4, EntryTypes
  <2>5. disk' \in [Block -> EntryType] /\ \A b \in Block : b \notin FileBlocks(i) => disk'[b] = disk[b]
    BY <1>3, <1>5, <1>8, <2>2, <2>3, <2>4, StoredTypes
  <2>6. ChainInv' /\ EntriesInv' /\ disk'[1] = disk[1]
    BY <1>3, <2>1, <2>5, OnlyFileWritten
  <2>7. StateInv'
    BY <1>3, <1>5, <1>6, <2>5 DEF GemInv, StateInv
  <2> QED
    BY <1>3, <1>6, <2>6, <2>7, ServeInv
<1> QED
  BY <1>7, <1>8

\* read: bounce_buffer is no longer than a program, so no block beyond the partition
\* is read.
LEMMA ReadStepInv ==
  ASSUME GemInv, RoomOnDisk, NEW n \in Lengths, Read(n)
  PROVE  GemInv'
<1>1. PICK e : e = ReadEntry(fd)
  OBVIOUS
<1>2. /\ pc = "serve" /\ pc' = pc /\ at' = at /\ made' = made /\ chain' = chain
      /\ fbb' = fbb /\ fd' = fd /\ disk' = disk /\ fd # NotFound
      /\ e.dir => bounce' = bounce
      /\ ~e.dir => bounce' = [k \in 1 .. BOUNCE |->
                                IF k <= n THEN disk[e.start + k - 1].data ELSE bounce[k]]
  BY <1>1 DEF Read
<1>3. fd \in 0 .. LastEntry /\ bounce \in [1 .. BOUNCE -> Data] /\ disk \in [Block -> EntryType]
  BY <1>2 DEF GemInv, StateInv
<1>4. bounce' \in [1 .. BOUNCE -> Data]
  <2>1. CASE e.dir
    BY <1>2, <1>3, <2>1
  <2>2. CASE ~e.dir
    <3>1. fd \in 1 .. LastEntry
      <4>1. fd # 0
        BY <1>1, <1>2, <2>2, RootIsDirectory
      <4> QED
        BY <1>3, <4>1, Indices
    <3>2. fd \in Calls
      BY <3>1, Indices
    <3>3. e.start \in 0 .. DISK - PROGRAM_SIZE
      <4>1. PROGRAM_SIZE \in Nat /\ DISK \in Nat /\ PROGRAM_SIZE <= DISK /\ PROGRAM_SIZE >= 1
        BY GemFSAssumption
      <4>2. Base[fd] \in Nat /\ Base[fd] + PROGRAM_SIZE <= DISK
        <5>1. Base[fd] <= EntryBlock(fd) /\ EntryBlock(fd) + 2 <= Limit /\ Limit \in Nat
              /\ Base[fd] \in Nat /\ EntryBlock(fd) \in Nat
          BY <3>2, Places
        <5>2. Limit <= Layout[6].home /\ Layout[6].home \in {Shell, Hello, ChudEdit}
          BY LayoutFacts DEF RoomOnDisk, Calls
        <5>3. Layout[6].home \in 6 .. DISK - PROGRAM_SIZE
          BY <5>2, GemFSAssumption
        <5> QED
          BY <4>1, <5>1, <5>2, <5>3
      <4>3. e.start = 0 \/ FilePlace(e.start, fd)
        BY <1>1, <2>2, <3>1 DEF GemInv, EntriesInv, Raw, Finished, FilePlace
      <4>4. Layout[fd].home # 0 => Layout[fd].home \in 6 .. DISK - PROGRAM_SIZE
        <5>1. Layout[fd].home # 0 => Layout[fd].home \in {Shell, Hello, ChudEdit}
          BY <3>2, LayoutFacts
        <5> QED
          BY <5>1, GemFSAssumption
      <4> QED
        BY <4>1, <4>2, <4>3, <4>4 DEF FilePlace
    <3>4. ASSUME NEW k \in 1 .. BOUNCE PROVE disk[e.start + k - 1].data \in Data
      <4>1. e.start + k - 1 \in Block
        BY <3>3, GemFSAssumption DEF RoomOnDisk, Block
      <4>2. disk[e.start + k - 1] \in EntryType
        BY <1>3, <4>1
      <4> QED
        BY <4>2 DEF EntryType
    <3> QED
      BY <1>2, <1>3, <2>2, <3>4
  <2> QED
    BY <2>1, <2>2
<1>5. LastEntry' = LastEntry
  BY <1>2 DEF LastEntry
<1>6. StateInv'
  BY <1>2, <1>4, <1>5 DEF GemInv, StateInv
<1>7. ChainInv' /\ EntriesInv'
  <2>1. fbb' \subseteq 0 .. Limit - 1
    BY <1>2 DEF GemInv, ChainInv
  <2> QED
    BY <1>2, <2>1, SameDisk
<1> QED
  BY <1>2, <1>5, <1>6, <1>7, ServeInv

\* GemFS_Find_Index_By_Name returns an index that an entry of the name has.
LEMMA FindRange ==
  ASSUME GemInv, RoomOnDisk, NEW name, NEW p \in 0 .. LastEntry,
         ReadEntry(p).start \in 0 .. LastEntry
  PROVE  LET i == Find_Index_By_Name(name, p)
         IN  \/ i \in {NotFound, Hang, 0}
             \/ \E j \in 0 .. LastEntry : ReadEntry(j).name = name /\ i = ReadEntry(j).index
<1> DEFINE child == Child(p)
           hits == {k \in DOMAIN child : /\ child[k] # NotFound
                                         /\ ReadEntry(child[k]).name = name}
           k == CHOOSE x \in hits : \A j \in hits : x <= j
<1>1. LastEntry \in Nat
  BY Indices
<1>2. DOMAIN child = 0 .. LastEntry + 1
  BY <1>1, ChildEquations
<1>3. \A x \in 0 .. LastEntry + 1 : child[x] \in {NotFound} \cup 0 .. LastEntry
  BY ChildRange
<1>4. Find_Index_By_Name(name, p) =
        IF ReadEntry(p).start = ReadEntry(p).index THEN 0
        ELSE IF hits # {} THEN ReadEntry(child[k]).index
        ELSE IF child[LastEntry + 1] = NotFound THEN NotFound ELSE Hang
  BY DEF Find_Index_By_Name
<1> HIDE DEF child
<1>5. CASE hits # {}
  <2>1. hits \in SUBSET Nat
    BY <1>1, <1>2
  <2>2. \E x \in hits : \A j \in hits : x <= j
    <3> HIDE DEF hits
    <3> QED
      BY <1>5, <2>1, Smallest
  <2>3. k \in hits
    <3> HIDE DEF hits
    <3> QED
      BY <2>2
  <2> HIDE DEF k
  <2>4. child[k] \in 0 .. LastEntry /\ ReadEntry(child[k]).name = name
    BY <1>2, <1>3, <2>3
  <2> HIDE DEF hits
  <2> QED
    BY <1>4, <1>5, <2>4
<1>6. CASE hits = {}
  BY <1>4, <1>6
<1> QED
  BY <1>5, <1>6

\* An entry that is not a file leads to an entry.
LEMMA StartInChain ==
  ASSUME GemInv, RoomOnDisk, pc = "serve", NEW i \in 0 .. LastEntry,
         i \in 6 .. 9 => ReadEntry(i).name # Layout[i].name
  PROVE  ReadEntry(i).start \in 0 .. LastEntry
<1>1. CASE i = 0
  BY <1>1, RootIsDirectory
<1>2. CASE i # 0
  <2>1. i \in 1 .. LastEntry /\ i \in Calls /\ LastEntry \in Nat
    BY <1>2, Indices
  <2>2. CASE Raw(ReadEntry(i))
    <3>1. ReadEntry(i).start = 0
      BY <2>2 DEF Raw
    <3> QED
      BY <2>1, <3>1
  <2>3. CASE Finished(ReadEntry(i), i)
    <3>1. ReadEntry(i).name = Layout[i].name
      BY <2>3 DEF Finished
    <3>2. i <= 5
      BY <2>1, <3>1 DEF Calls
    <3>3. Layout[i].dir = TRUE
      BY <2>1, <3>2, LayoutFacts
    <3>4. ReadEntry(i).dir
      BY <2>3, <3>3 DEF Finished
    <3> QED
      BY <2>3, <3>4 DEF Finished
  <2> QED
    BY <2>1, <2>2, <2>3 DEF GemInv, EntriesInv
<1> QED
  BY <1>1, <1>2

\* What a lookup of a directory's name finds can be searched in turn.
LEMMA FindSearchable ==
  ASSUME GemInv, RoomOnDisk, pc = "serve", NEW name, NEW p \in 0 .. LastEntry,
         ReadEntry(p).start \in 0 .. LastEntry
  PROVE  LET i == Find_Index_By_Name(name, p)
         IN  /\ i \in Hang .. LastEntry
             /\ (\A j \in 6 .. 9 : name # Layout[j].name) /\ i >= 0
                  => ReadEntry(i).start \in 0 .. LastEntry
<1>1. PICK i : i = Find_Index_By_Name(name, p)
  OBVIOUS
<1>2. LastEntry \in Nat
  BY Indices
<1>3. CASE i \in {NotFound, Hang, 0}
  <2>1. i \in Hang .. LastEntry /\ (i >= 0 => i = 0)
    BY <1>2, <1>3 DEF NotFound, Hang
  <2> QED
    BY <1>1, <2>1, RootIsDirectory
<1>4. CASE \E j \in 0 .. LastEntry : ReadEntry(j).name = name /\ i = ReadEntry(j).index
  <2>1. PICK j \in 0 .. LastEntry : ReadEntry(j).name = name /\ i = ReadEntry(j).index
    BY <1>4
  <2>2. i \in 0 .. LastEntry
    BY <2>1, SiblingsInChain
  <2>3. i \in Hang .. LastEntry
    BY <1>2, <2>2 DEF Hang
  <2>4. ASSUME \A x \in 6 .. 9 : name # Layout[x].name
        PROVE  ReadEntry(i).start \in 0 .. LastEntry
    <3>1. i = 0 \/ i = j
      <4>1. CASE j = 0
        <5>1. ReadEntry(0).index = 0
          BY RootIndex
        <5> QED
          BY <2>1, <4>1, <5>1
      <4>2. CASE j # 0
        <5>1. j \in 1 .. LastEntry
          BY <1>2, <4>2
        <5> QED
          BY <2>1, <5>1 DEF GemInv, EntriesInv, Finished
      <4> QED
        BY <4>1, <4>2
    <3>2. CASE i = 0
      BY <3>2, RootIsDirectory
    <3>3. CASE i = j
      BY <2>1, <2>4, <3>3, StartInChain
    <3> QED
      BY <3>1, <3>2, <3>3
  <2> QED
    BY <1>1, <2>3, <2>4
<1> QED
  BY <1>1, <1>3, <1>4, FindRange

\* One step of GemFS_Directory_to_Index.
Lookup(name) ==
  [p \in Hang .. LastEntry |-> IF p < 0 THEN p ELSE Find_Index_By_Name(name, p)]

\* Where a lookup can go on.
Searchable(p) == p \in Hang .. LastEntry /\ (p >= 0 => ReadEntry(p).start \in 0 .. LastEntry)

\* GemFS_Directory_to_Index looks up one name after the other, from the root.
LEMMA PathEquations ==
  ASSUME NEW path, Len(path) \in Nat, NEW terminated
  PROVE  LET scan == [path EXCEPT ![1] = IF terminated THEN path[1] ELSE "?"]
         IN  \E upto : /\ upto[0] = 0
                       /\ \A k \in 1 .. Len(path) : upto[k] = Lookup(scan[k])[upto[k - 1]]
                       /\ Directory_to_Index(path, terminated) = upto[Len(path)]
<1> DEFINE scan == [path EXCEPT ![1] = IF terminated THEN path[1] ELSE "?"]
           n == Len(path)
           next == [k \in 1 .. n |-> Lookup(scan[k])]
           upto == CHOOSE f : f = [k \in 0 .. n |->
                                     IF k = 0 THEN 0 ELSE Lookup(scan[k])[f[k - 1]]]
<1>1. PICK w : Iterates(w, n, 0, next)
  <2> HIDE DEF n, next
  <2> QED
    BY IterateExists DEF n
<1>2. w = [k \in 0 .. n |-> IF k = 0 THEN 0 ELSE Lookup(scan[k])[w[k - 1]]]
  <2>1. \A k \in 0 .. n : k # 0 => next[k] = Lookup(scan[k])
    <3> HIDE DEF n, scan
    <3> QED
      OBVIOUS
  <2> HIDE DEF next, scan, n
  <2> QED
    BY <1>1, <2>1 DEF Iterates
<1>3. upto = [k \in 0 .. n |-> IF k = 0 THEN 0 ELSE Lookup(scan[k])[upto[k - 1]]]
  <2> HIDE DEF scan
  <2> QED
    BY <1>2
<1>4. Directory_to_Index(path, terminated) = upto[n]
  BY DEF Directory_to_Index, Lookup
<1> HIDE DEF upto, scan
<1>5. upto[0] = 0 /\ \A k \in 1 .. n : upto[k] = Lookup(scan[k])[upto[k - 1]]
  <2>1. 0 \in 0 .. n
    OBVIOUS
  <2>2. upto[0] = 0
    BY <1>3, <2>1
  <2>3. ASSUME NEW k \in 1 .. n PROVE upto[k] = Lookup(scan[k])[upto[k - 1]]
    <3>1. k \in 0 .. n /\ k # 0
      OBVIOUS
    <3> QED
      BY <1>3, <3>1
  <2> QED
    BY <2>2, <2>3
<1> QED
  BY <1>4, <1>5 DEF scan

\* So it ends at an entry, or tells that there is none, or never ends.
LEMMA PathRange ==
  ASSUME GemInv, RoomOnDisk, ThroughDirectories, pc = "serve", NEW path \in Paths,
         NEW terminated \in BOOLEAN
  PROVE  Directory_to_Index(path, terminated) \in Hang .. LastEntry
<1> DEFINE n == Len(path)
           scan == [path EXCEPT ![1] = IF terminated THEN path[1] ELSE "?"]
<1>1. path \in Seq({path[k] : k \in DOMAIN path}) /\ n \in Nat /\ DOMAIN path = 1 .. n
  BY DEF ThroughDirectories
<1>2. PICK upto : /\ upto[0] = 0
                  /\ \A k \in 1 .. n : upto[k] = Lookup(scan[k])[upto[k - 1]]
                  /\ Directory_to_Index(path, terminated) = upto[n]
  BY <1>1, PathEquations
<1>3. ASSUME NEW k \in 1 .. n - 1, NEW j \in 6 .. 9 PROVE scan[k] # Layout[j].name
  <2>1. k \in DOMAIN path
    BY <1>1
  <2>2. scan[k] = path[k] \/ scan[k] = "?"
    BY <2>1
  <2>3. path[k] # Layout[j].name
    BY DEF ThroughDirectories
  <2>4. "?" # Layout[j].name
    BY LayoutCalls DEF File
  <2> QED
    BY <2>2, <2>3, <2>4
<1>8. n \in Nat
  BY <1>1
<1> HIDE DEF scan, n
<1>4. ASSUME NEW k \in 1 .. n, Searchable(upto[k - 1])
      PROVE  upto[k] \in Hang .. LastEntry /\ (k # n => Searchable(upto[k]))
  <2>1. PICK p : p = upto[k - 1]
    OBVIOUS
  <2>2. p \in Hang .. LastEntry /\ LastEntry \in Nat
    BY <1>4, <2>1, Indices DEF Searchable
  <2>3. upto[k] = IF p < 0 THEN p ELSE Find_Index_By_Name(scan[k], p)
    BY <1>2, <2>1, <2>2 DEF Lookup
  <2>4. CASE p < 0
    <3>1. upto[k] = p /\ ~(p >= 0)
      BY <2>2, <2>3, <2>4 DEF Hang
    <3> QED
      BY <2>2, <3>1 DEF Searchable
  <2>5. CASE ~(p < 0)
    <3>1. p \in 0 .. LastEntry /\ ReadEntry(p).start \in 0 .. LastEntry
      BY <1>4, <2>1, <2>2, <2>5 DEF Searchable, Hang
    <3>2. upto[k] = Find_Index_By_Name(scan[k], p)
      BY <2>3, <2>5
    <3>3. /\ upto[k] \in Hang .. LastEntry
          /\ (\A j \in 6 .. 9 : scan[k] # Layout[j].name) /\ upto[k] >= 0
               => ReadEntry(upto[k]).start \in 0 .. LastEntry
      BY <3>1, <3>2, FindSearchable
    <3>4. k # n => \A j \in 6 .. 9 : scan[k] # Layout[j].name
      <4>1. k # n => k \in 1 .. n - 1
        BY <1>8
      <4> QED
        BY <1>3, <4>1
    <3> QED
      BY <3>3, <3>4 DEF Searchable
  <2> QED
    BY <2>4, <2>5
<1>5. Searchable(0) /\ 0 \in Hang .. LastEntry
  BY RootIsDirectory, Indices DEF Searchable, Hang
<1>6. CASE n = 0
  BY <1>2, <1>5, <1>6
<1>7. CASE n # 0
  <2> DEFINE S == {k \in Nat : Searchable(upto[k])}
  <2>1. 0 \in S
    BY <1>2, <1>5
  <2>2. ASSUME NEW k \in 1 .. n - 1, k - 1 \in S PROVE k \in S
    <3>1. k \in 1 .. n /\ k # n /\ k \in Nat
      BY <1>8
    <3> QED
      BY <1>4, <2>2, <3>1
  <2>3. \A k \in 0 .. n - 1 : k \in S
    <3>1. n - 1 \in Nat
      BY <1>8, <1>7
    <3> HIDE DEF S
    <3> QED
      BY <2>1, <2>2, <3>1, Induction
  <2>4. n - 1 \in 0 .. n - 1 /\ n \in 1 .. n
    BY <1>8, <1>7
  <2>5. Searchable(upto[n - 1])
    BY <2>3, <2>4
  <2> QED
    BY <1>2, <1>4, <2>4, <2>5
<1> QED
  BY <1>6, <1>7

\* open.
LEMMA OpenStepInv ==
  ASSUME GemInv, RoomOnDisk, ThroughDirectories, NEW path \in Paths, Open(path)
  PROVE  GemInv'
<1>1. PICK terminated \in BOOLEAN :
        LET i == Directory_to_Index(path, terminated)
        IN  fd' = (IF i >= 0 THEN i ELSE NotFound) /\ pc' = (IF i = Hang THEN "hung" ELSE pc)
  BY DEF Open
<1>2. /\ pc = "serve" /\ at' = at /\ made' = made /\ chain' = chain /\ fbb' = fbb
      /\ disk' = disk /\ bounce' = bounce
  BY DEF Open
<1>3. PICK i : i = Directory_to_Index(path, terminated)
  OBVIOUS
<1>4. i \in Hang .. LastEntry /\ LastEntry \in Nat
  BY <1>2, <1>3, PathRange, Indices
<1>5. fd' \in {NotFound} \cup 0 .. LastEntry /\ pc' \in {"serve", "hung"}
  BY <1>1, <1>2, <1>3, <1>4 DEF Hang
<1>6. LastEntry' = LastEntry
  BY <1>2 DEF LastEntry
<1>7. StateInv'
  BY <1>2, <1>5, <1>6 DEF GemInv, StateInv
<1>8. ChainInv' /\ EntriesInv'
  <2>1. fbb' \subseteq 0 .. Limit - 1
    BY <1>2 DEF GemInv, ChainInv
  <2> QED
    BY <1>2, <2>1, SameDisk
<1> QED
  BY <1>2, <1>5, <1>6, <1>7, <1>8, ServeInv

----------------------------------------------------------------------------
(* The theorems                                                            *)

\* Every step keeps the invariant.
LEMMA GemNextInv ==
  ASSUME GemHypotheses, GemInv, [GemNext]_gemvars
  PROVE  GemInv'
<1>1. RoomOnDisk /\ ThroughDirectories /\ Garbage \subseteq {0, 1} /\ ~WritesEmpty
  BY DEF GemHypotheses
<1>2. CASE Boot
  BY <1>1, <1>2, BootInv
<1>3. CASE WriteMain
  BY <1>1, <1>3, WriteMainInv
<1>4. CASE Reserve
  BY <1>1, <1>4, ReserveStepInv
<1>5. CASE MarkData
  BY <1>1, <1>5, MarkDataInv
<1>6. CASE CreateEntry
  BY <1>1, <1>6, CreateEntryInv
<1>7. CASE LinkEntry
  BY <1>1, <1>7, LinkEntryInv
<1>8. CASE BlankEntry
  BY <1>1, <1>8, BlankEntryInv
<1>9. CASE Claim
  BY <1>1, <1>9, ClaimInv
<1>10. CASE AddSibling
  BY <1>1, <1>10, AddSiblingInv
<1>11. CASE WriteNewEntry
  BY <1>1, <1>11, WriteNewEntryInv
<1>12. CASE WriteParent
  BY <1>1, <1>12, WriteParentInv
<1>13. CASE WriteStart
  BY <1>1, <1>13, WriteStartInv
<1>14. CASE WriteHome
  BY <1>1, <1>14, WriteHomeInv
<1>15. CASE WriteMessage
  BY <1>1, <1>15, WriteMessageInv
<1>16. CASE PowerFailure
  BY <1>1, <1>16, PowerFailureInv
<1>17. CASE Program
  <2>1. ASSUME NEW path \in Paths, Open(path) PROVE GemInv'
    BY <1>1, <2>1, OpenStepInv
  <2>2. ASSUME NEW n \in Lengths, Read(n) PROVE GemInv'
    BY <1>1, <2>2, ReadStepInv
  <2>3. ASSUME NEW n \in Lengths, NEW text \in Texts, Write(n, text) PROVE GemInv'
    BY <1>1, <2>3, WriteStepInv
  <2> QED
    BY <1>17, <2>1, <2>2, <2>3 DEF Program
<1>18. CASE UNCHANGED gemvars
  <2>1. /\ disk' = disk /\ chain' = chain /\ fbb' = fbb /\ pc' = pc /\ at' = at
        /\ made' = made /\ fd' = fd /\ bounce' = bounce
    BY <1>18 DEF gemvars
  <2>2. LastEntry' = LastEntry /\ \A i : ReadEntry(i)' = ReadEntry(i)
    BY <2>1 DEF LastEntry, ReadEntry, GetEntryBlock
  <2>3. fbb' \subseteq 0 .. Limit - 1
    BY <2>1 DEF GemInv, ChainInv
  <2>4. ChainInv' /\ EntriesInv' /\ \A e, i : Finished(e, i)' <=> Finished(e, i)
    BY <2>1, <2>3, SameDisk
  <2>5. /\ CallsDone => CallsDone'
        /\ Unlinked => Unlinked'
        /\ Call' = Call /\ ParentIndex' = ParentIndex
    BY <2>1, SameCall
  <2>6. StateInv'
    BY <2>1, <2>2 DEF GemInv, StateInv
  <2>7. RootInv'
    BY <2>1, <2>2 DEF GemInv, RootInv, Pristine
  <2>8. ReserveInv' /\ DataInv' /\ FindInv' /\ LinkInv' /\ RestInv' /\ PcInv'
    BY <2>1, <2>2, <2>5
       DEF GemInv, ReserveInv, DataInv, FindInv, LinkInv, RestInv, PcInv, MarkedBelow
  <2>9. WriteInv'
    BY <2>1, <2>2, <2>5 DEF GemInv, WriteInv, MarkedBelow
  <2>10. CallInv'
    <3>1. Finished(ReadEntry(at.call), at.call) => Finished(ReadEntry(at.call), at.call)'
      BY <2>1, <2>2 DEF Finished
    <3>2. Raw(ReadEntry(at.call)) => Raw(ReadEntry(at.call))'
      BY <2>1, <2>2 DEF Raw
    <3>3. ReadEntry(at.call)' = ReadEntry(at.call)
      BY <2>1, <2>2
    <3> QED
      BY <2>1, <2>2, <2>5, <3>1, <3>2, <3>3 DEF GemInv, CallInv
  <2> QED
    BY <2>4, <2>6, <2>7, <2>8, <2>9, <2>10 DEF GemInv
<1> QED
  BY <1>2, <1>3, <1>4, <1>5, <1>6, <1>7, <1>8, <1>9, <1>10, <1>11, <1>12, <1>13,
     <1>14, <1>15, <1>16, <1>17, <1>18 DEF GemNext, Format

\* The format, the power failures and the calls of programs keep it together.
LEMMA GemInvariant == ASSUME GemHypotheses PROVE GemSpec => []GemInv
<1>1. GemInit => GemInv
  BY GemInitInv DEF GemHypotheses
<1>2. GemInv /\ [GemNext]_gemvars => GemInv'
  BY GemNextInv
<1> QED
  BY <1>1, <1>2, PTL DEF GemSpec

\* Indexes stay inside the chain and blocks inside the partition, wherever the power
\* fails in GemFS_FormatPartition and whatever programs open, read and write then,
\* a write to a file that has no blocks yet excepted.
THEOREM GemTypeCorrect == ASSUME GemHypotheses PROVE GemSpec => []GemTypeOK
<1>1. GemInv => GemTypeOK
  BY InvTypeOK DEF GemHypotheses
<1> QED
  BY <1>1, GemInvariant, PTL

\* No block belongs to two entries or files, nor to the boot sector or the bitmap,
\* although GemFS_CreateFile checks only that the first block of a file is free, and
\* although GemFS_WriteFile writes all blocks of a file whatever is in its entry.
\* Programs write to finished files only: a file without blocks has Start 0.
THEOREM BlocksPrivate == ASSUME GemHypotheses PROVE GemSpec => []NoSharedBlocks
<1>1. GemInv => NoSharedBlocks
  BY InvNoShared DEF GemHypotheses
<1> QED
  BY <1>1, GemInvariant, PTL

\* GemFS_FBB_SetBlock marks a block before an entry leads to it, so every block in use
\* is marked after any power failure, as long as programs write to finished files
\* only: the write to one without blocks zeroes the bitmap.
THEOREM BlocksMarked == ASSUME GemHypotheses PROVE GemSpec => []UsedBlocksMarked
<1>1. GemInv => UsedBlocksMarked
  BY InvMarked DEF GemHypotheses
<1> QED
  BY <1>1, GemInvariant, PTL

=============================================================================
