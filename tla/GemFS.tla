------------------------------- MODULE GemFS -------------------------------
(***************************************************************************)
(* The file system (gemfs.c) on the boot floppy: formatting at the first    *)
(* boot, one action per disk write, power failures between any two of them, *)
(* and the open, read and write calls of programs afterwards.               *)
(*                                                                         *)
(* A block is an entry or one unit of file data.  Entry 0 is the main       *)
(* entry in block 1; from there Next_Index_Start leads from entry to entry, *)
(* and chain is the sequence of the blocks it leads to.  The free-block     *)
(* bitmap is block 4, one byte of it per block: here the set fbb.           *)
(* Main_Entries, the copy of the main entry in memory, is written together  *)
(* with block 1 and not modelled apart from it.                             *)
(***************************************************************************)
EXTENDS Integers, Sequences, FiniteSets

CONSTANTS
  BLOCKS,        \* blocks the bitmap scan covers (0x200)
  DISK,          \* blocks of the partition (0x2000)
  PROGRAM_SIZE,  \* blocks of a program file (9)
  Shell, Hello, ChudEdit,  \* where the image has the programs (476, 576, 776)
  BOUNCE,        \* blocks of bounce_buffer (8)
  Garbage,       \* what an uninitialised Sibling_Index may hold
  FirstFailure,  \* power may fail from this call of the format on
  Paths,         \* the paths programs open
  Texts,         \* what programs write
  Written,       \* the names of what they write to
  Lengths,       \* how many blocks they read and write, as bounce_buffer holds
  EMPTY,         \* blocks zeroed by a write of no sectors: 128, or to the
                 \* end of the cylinder
  WritesEmpty    \* whether programs write to a file that has no blocks yet

ASSUME GemFSAssumption ==
  /\ BLOCKS \in Nat /\ DISK \in Nat /\ PROGRAM_SIZE \in Nat \ {0}
  /\ 6 <= BLOCKS /\ BLOCKS <= DISK
  /\ {Shell, Hello, ChudEdit} \subseteq 6 .. DISK - PROGRAM_SIZE
  /\ BOUNCE \in Nat \ {0} /\ Garbage \subseteq Nat
  /\ Lengths \subseteq 1 .. BOUNCE
  /\ EMPTY \in Nat /\ 6 <= EMPTY /\ WritesEmpty \in BOOLEAN

VARIABLES
  disk,    \* the blocks
  chain,   \* the blocks of the entries 1, 2, ...
  fbb,     \* the blocks marked in use
  pc, at,  \* the disk write the kernel does next, and its locals
  made,    \* the indexes GemFS_mkdir and GemFS_CreateFile returned
  fd,      \* gemfs_index of the descriptor in use, NotFound for an unused one
  bounce,  \* bounce_buffer
  io       \* the last call of a program and its result

gemvars == <<disk, chain, fbb, pc, at, made, fd, bounce, io>>

Block == 0 .. DISK - 1
NotFound == -1

----------------------------------------------------------------------------
(* The disk                                                                *)

\* GemFS_FormatPartition's calls.  parent is the call that made the parent
\* directory (0 is the root; for zero and urand the code has the literal index
\* 1, that of dev); home is the block Start is set to afterwards.
Dir(name, parent) ==
  [name |-> name, parent |-> parent, dir |-> TRUE, size |-> 0, home |-> 0]
File(name, parent, size, home) ==
  [name |-> name, parent |-> parent, dir |-> FALSE, size |-> size,
   home |-> home]

Layout ==
  << Dir("dev", 0), Dir("zero", 1), Dir("urand", 1), Dir("etc", 0),
     Dir("bin", 0),
     File("shell.elf", 5, PROGRAM_SIZE, Shell),
     File("hello_world.elf", 5, PROGRAM_SIZE, Hello),
     File("chudedit.elf", 5, PROGRAM_SIZE, ChudEdit),
     File("boot_msg.txt", 4, 1, 0) >>

Extent(start, size) == start .. start + size - 1

\* A block of zeros read as an entry.  data is what the block is as file data.
Zeros ==
  [used |-> FALSE, dir |-> FALSE, start |-> 0, size |-> 0, index |-> 0,
   parent |-> 0, sibling |-> 0, name |-> "", data |-> "zeros"]

MainEntry ==
  [Zeros EXCEPT !.used = TRUE, !.dir = TRUE, !.name = "ROOT", !.data = "GEMH"]

\* The image: programs at their homes, zeros elsewhere.
Image ==
  [b \in Block |->
     LET here == {k \in 1 .. Len(Layout) :
                    Layout[k].home # 0
                    /\ b \in Extent(Layout[k].home, Layout[k].size)}
     IN  IF here = {} THEN Zeros
         ELSE [Zeros EXCEPT !.data = Layout[CHOOSE k \in here : TRUE].name]]

LastEntry == Len(chain)

GetEntryBlock(i) == IF i = 0 THEN 1 ELSE chain[i]

ReadEntry(i) == disk[GetEntryBlock(i)]

WriteEntry(i, entry) == disk' = [disk EXCEPT ![GetEntryBlock(i)] = entry]

FBB_SetBlock(b) == fbb' = fbb \cup {b}

\* FBB_GetBlock, scanned upwards.
FreeBlocks == {b \in 0 .. BLOCKS - 1 : b \notin fbb}
FindFreeBlock == CHOOSE b \in FreeBlocks : \A c \in FreeBlocks : b <= c

FreeEntries == {i \in 0 .. LastEntry : ~ReadEntry(i).used}

\* Mutant of FindFreeEntry: it returns i, not i - 1.
FindFreeEntry_OffByOne ==
  1 + CHOOSE i \in FreeEntries : \A j \in FreeEntries : i <= j

FindFreeEntry == CHOOSE i \in FreeEntries : \A j \in FreeEntries : i <= j

----------------------------------------------------------------------------
(* Paths                                                                   *)

\* The children of p in the order they are compared; NotFound after the last.
\* The first is entry 0 when p has none.
Child(p) ==
  LET after == [i \in {NotFound} \cup 0 .. LastEntry |->
                  IF i = NotFound \/ ReadEntry(i).sibling = 0 THEN NotFound
                  ELSE ReadEntry(i).sibling]
      walk[k \in 0 .. LastEntry + 1] ==
        IF k = 0 THEN ReadEntry(p).start ELSE after[walk[k - 1]]
  IN  walk

Hang == -2  \* the siblings form a circle and the name is not among them

Find_Index_By_Name(name, p) ==
  LET child == Child(p)
      hits == {k \in DOMAIN child : /\ child[k] # NotFound
                                    /\ ReadEntry(child[k]).name = name}
  IN  IF ReadEntry(p).start = ReadEntry(p).index THEN 0
      ELSE IF hits # {}
      THEN ReadEntry(child[CHOOSE k \in hits : \A j \in hits : k <= j]).index
      ELSE IF child[LastEntry + 1] = NotFound THEN NotFound ELSE Hang

\* scan, the buffer for one component, is uninitialised for the first one:
\* unless it happens to be followed by a zero, that one is another name.
Directory_to_Index(path, terminated) ==
  LET scan == [path EXCEPT ![1] = IF terminated THEN @ ELSE "?"]
      child(name) == [p \in Hang .. LastEntry |->
                        IF p < 0 THEN p ELSE Find_Index_By_Name(name, p)]
      upto[k \in 0 .. Len(path)] ==
        IF k = 0 THEN 0 ELSE child(scan[k])[upto[k - 1]]
  IN  upto[Len(path)]

----------------------------------------------------------------------------
(* Formatting                                                              *)

Call == Layout[at.call]

\* The index of the directory the current call creates in.
ParentIndex == IF Call.parent = 0 THEN 0 ELSE made[Call.parent]

Start(call) == [call |-> call, k |-> 0, free |-> 0, start |-> 0, block |-> 0]
FirstWrite(call) == IF Layout[call].dir THEN "find" ELSE "data"

\* The current call returns.
Return ==
  /\ made' = Append(made, at.free)
  /\ IF at.call = Len(Layout)
     THEN pc' = "serve" /\ at' = Start(1)
     ELSE pc' = FirstWrite(at.call + 1) /\ at' = Start(at.call + 1)

GemInit ==
  /\ disk = Image
  /\ chain = <<>>
  /\ fbb = {}
  /\ pc = "off" /\ at = Start(1)
  /\ made = <<>>
  /\ fd = NotFound
  /\ bounce = [k \in 1 .. BOUNCE |-> "zeros"]
  /\ io = [op |-> "none"]

\* GemFS_Init.
Boot ==
  /\ pc = "off"
  /\ pc' = IF disk[1].data = "GEMH" THEN "serve" ELSE "main"
  /\ UNCHANGED <<chain, disk, fbb, at, made, fd, bounce, io>>

\* The main entry; block 2, written next, is not read again.
WriteMain ==
  /\ pc = "main"
  /\ disk' = [disk EXCEPT ![1] = MainEntry]
  /\ pc' = "reserve"
  /\ UNCHANGED <<chain, fbb, at, made, fd, bounce, io>>

\* The blocks 0 to 5.
Reserve ==
  /\ pc = "reserve"
  /\ FBB_SetBlock(at.k)
  /\ IF at.k = 5 THEN pc' = FirstWrite(1) /\ at' = Start(1)
                 ELSE pc' = pc /\ at' = [at EXCEPT !.k = @ + 1]
  /\ UNCHANGED <<chain, disk, made, fd, bounce, io>>

\* Mutant of MarkData: the last block of the file is not marked.
MarkData_OffByOne ==
  /\ pc = "data"
  /\ LET first == IF at.k = 0 THEN FindFreeBlock ELSE at.start IN
     /\ fbb' = IF at.k = Call.size - 1 THEN fbb ELSE fbb \cup {first + at.k}
     /\ at' = [at EXCEPT !.start = first, !.k = @ + 1]
  /\ pc' = IF at.k = Call.size - 1 THEN "find" ELSE "data"
  /\ UNCHANGED <<chain, disk, made, fd, bounce, io>>

\* GemFS_CreateFile marks the file's blocks, from the first free one on.
MarkData ==
  /\ pc = "data"
  /\ LET first == IF at.k = 0 THEN FindFreeBlock ELSE at.start IN
     /\ FBB_SetBlock(first + at.k)
     /\ at' = [at EXCEPT !.start = first, !.k = @ + 1]
  /\ pc' = IF at.k = Call.size - 1 THEN "find" ELSE "data"
  /\ UNCHANGED <<chain, disk, made, fd, bounce, io>>

\* Mutant of CreateEntry: the block of the new entry is not marked.
CreateEntry_Unmarked ==
  /\ pc = "find" /\ FreeEntries = {}
  /\ at' = [at EXCEPT !.block = FindFreeBlock]
  /\ pc' = "link"
  /\ UNCHANGED <<chain, fbb, disk, made, fd, bounce, io>>

\* FindFreeEntry reads one entry past the last: GetEntryBlock creates it.  (For
\* entry 1 it then returns block 0, as free as the new entry: all zeros.)
CreateEntry ==
  /\ pc = "find" /\ FreeEntries = {}
  /\ FBB_SetBlock(FindFreeBlock)
  /\ at' = [at EXCEPT !.block = FindFreeBlock]
  /\ pc' = "link"
  /\ UNCHANGED <<chain, disk, made, fd, bounce, io>>

LinkEntry ==
  /\ pc = "link"
  /\ chain' = Append(chain, at.block)
  /\ pc' = "blank"
  /\ UNCHANGED <<disk, fbb, at, made, fd, bounce, io>>

\* Only Index, Flags and Next_Index_Start are set.  Of the rest, lookups use
\* Sibling_Index, and the name, which is none that a path has.
BlankEntry ==
  /\ pc = "blank"
  /\ \E g \in Garbage :
       disk' = [disk EXCEPT ![at.block] =
                  [Zeros EXCEPT !.index = LastEntry, !.sibling = g,
                                !.data = "entry"]]
  /\ pc' = "find"
  /\ UNCHANGED <<chain, fbb, at, made, fd, bounce, io>>

\* GemFS_mkdir: a block is marked for every entry and never used.
Claim ==
  /\ pc = "find" /\ FreeEntries # {}
  /\ at' = [at EXCEPT !.free = FindFreeEntry]
  /\ FBB_SetBlock(FindFreeBlock)
  /\ pc' = IF ReadEntry(ParentIndex).start # 0 THEN "sibling" ELSE "entry"
  /\ UNCHANGED <<chain, disk, made, fd, bounce, io>>

\* Mutant of AddSibling: the sibling is set in the parent's first child.
AddSibling_First ==
  /\ pc = "sibling"
  /\ LET first == ReadEntry(ParentIndex).start
     IN  WriteEntry(first, [ReadEntry(first) EXCEPT !.sibling = at.free])
  /\ pc' = "entry"
  /\ UNCHANGED <<chain, fbb, at, made, fd, bounce, io>>

\* The last child of the parent gets a sibling.
AddSibling ==
  /\ pc = "sibling"
  /\ LET child == Child(ParentIndex)
         last == CHOOSE k \in DOMAIN child :
                   child[k] # NotFound /\ child[k + 1] = NotFound
         entry == ReadEntry(child[last])
     IN  WriteEntry(entry.index, [entry EXCEPT !.sibling = at.free])
  /\ pc' = "entry"
  /\ UNCHANGED <<chain, fbb, at, made, fd, bounce, io>>

\* Next_Index_Start becomes 0: the entry is now the last of the chain.
WriteNewEntry ==
  /\ pc = "entry"
  /\ WriteEntry(at.free,
       [Zeros EXCEPT !.used = TRUE, !.dir = Call.dir, !.index = at.free,
                     !.parent = ParentIndex, !.name = Call.name,
                     !.data = "entry"])
  /\ chain' = SubSeq(chain, 1, at.free)
  /\ pc' = "parent"
  /\ UNCHANGED <<fbb, at, made, fd, bounce, io>>

WriteParent ==
  /\ pc = "parent"
  /\ WriteEntry(ParentIndex, [ReadEntry(ParentIndex) EXCEPT !.start =
                               IF @ = 0 THEN at.free ELSE @])
  /\ IF Call.dir THEN Return ELSE pc' = "start" /\ UNCHANGED <<at, made>>
  /\ UNCHANGED <<chain, fbb, fd, bounce, io>>

\* GemFS_CreateFile writes the entry again, with the blocks.
WriteStart ==
  /\ pc = "start"
  /\ WriteEntry(at.free, [ReadEntry(at.free) EXCEPT !.start = at.start,
                                                    !.size = Call.size])
  /\ pc' = IF Call.home # 0 THEN "home" ELSE "message"
  /\ UNCHANGED <<chain, fbb, at, made, fd, bounce, io>>

\* The format points a program file at the image; its own blocks stay marked.
WriteHome ==
  /\ pc = "home"
  /\ WriteEntry(at.free, [ReadEntry(at.free) EXCEPT !.start = Call.home])
  /\ Return
  /\ UNCHANGED <<chain, fbb, fd, bounce, io>>

\* GemFS_WriteFile of the boot message (its entry is written back unchanged).
WriteMessage ==
  /\ pc = "message"
  /\ disk' = [disk EXCEPT ![ReadEntry(at.free).start].data = "message"]
  /\ Return
  /\ UNCHANGED <<chain, fbb, fd, bounce, io>>

Format ==
  \/ WriteMain \/ Reserve \/ MarkData \/ CreateEntry \/ LinkEntry \/ BlankEntry
  \/ Claim \/ AddSibling \/ WriteNewEntry \/ WriteParent \/ WriteStart
  \/ WriteHome \/ WriteMessage

\* What is in memory is lost.
PowerFailure ==
  /\ pc # "off"
  /\ pc \in {"serve", "hung"} \/ at.call >= FirstFailure
  /\ pc' = "off" /\ at' = Start(1) /\ made' = <<>> /\ fd' = NotFound
  /\ bounce' = [k \in 1 .. BOUNCE |-> "zeros"]
  /\ UNCHANGED <<chain, disk, fbb, io>>

----------------------------------------------------------------------------
(* Programs                                                                *)

\* Paths lead through directories only: a lookup in a file is not modelled.
Open(path) ==
  /\ pc = "serve"
  /\ \E terminated \in BOOLEAN :
       LET i == Directory_to_Index(path, terminated) IN
       /\ fd' = IF i >= 0 THEN i ELSE NotFound
       /\ pc' = IF i = Hang THEN "hung" ELSE pc
       /\ io' = [op |-> "open", path |-> path, node |-> i]
  /\ UNCHANGED <<chain, disk, fbb, at, made, bounce>>

\* read: whole blocks through bounce_buffer; a directory is refused and the
\* program gets what the buffer held.
Read(n) ==
  /\ pc = "serve" /\ fd # NotFound
  /\ LET e == ReadEntry(fd) IN
     IF e.dir THEN bounce' = bounce /\ io' = [op |-> "refused"]
     ELSE /\ bounce' = [k \in 1 .. BOUNCE |->
                          IF k <= n THEN disk[e.start + k - 1].data
                          ELSE bounce[k]]
          /\ io' = [op |-> "read", file |-> fd,
                    blocks |-> SubSeq(bounce', 1, n)]
  /\ UNCHANGED <<chain, disk, fbb, pc, at, made, fd>>

\* The disk after GemFS_WriteFile: all blocks of the file, whatever the
\* length of the buffer.
Stored(e, buffer) ==
  [b \in Block |->
     IF b \in Extent(e.start, e.size)
     THEN [Zeros EXCEPT !.data = IF b - e.start < BOUNCE
                                 THEN buffer[b - e.start + 1] ELSE "junk"]
     ELSE disk[b]]

\* GemFS_WriteFile of a file that has no blocks because the power failed
\* before WriteStart: its Start is 0, and the DMA count of no bytes wraps
\* around, so that zeros go to the boot sector, the main entry, the bitmap and
\* the entries behind.  What is made of those zeros from then on is left out.
Wiped(e) ==
  /\ disk' = [b \in Block |-> IF b \in Extent(e.start, EMPTY) THEN Zeros ELSE disk[b]]
  /\ chain' = <<>> /\ fbb' = {}
  /\ pc' = "wiped"

\* write; an unused descriptor has index 0, the root directory.
Write(n, text) ==
  /\ pc = "serve"
  /\ bounce' = [k \in 1 .. BOUNCE |-> IF k <= n THEN text ELSE bounce[k]]
  /\ LET e == ReadEntry(IF fd = NotFound THEN 0 ELSE fd) IN
     /\ e.name \in Written
     /\ e.dir \/ e.size > 0 \/ WritesEmpty
     /\ io' = IF e.dir THEN [op |-> "refused"]
              ELSE [op |-> "write", file |-> fd, blocks |-> SubSeq(bounce', 1, n)]
     /\ IF ~e.dir /\ e.size = 0 THEN Wiped(e)
        ELSE /\ disk' = IF e.dir THEN disk ELSE Stored(e, bounce')
             /\ UNCHANGED <<chain, fbb, pc>>
  /\ UNCHANGED <<at, made, fd>>

Program ==
  \/ \E path \in Paths : Open(path)
  \/ \E n \in Lengths : Read(n) \/ \E text \in Texts : Write(n, text)

GemNext == Boot \/ Format \/ PowerFailure \/ Program

GemSpec == GemInit /\ [][GemNext]_gemvars

----------------------------------------------------------------------------
(* What the theorems of GemFSProofs ask of the constants                    *)

\* The first block behind all that the format marks.
Limit == 25 + 3 * PROGRAM_SIZE

\* The scan of the bitmap covers what the format needs, the image has the
\* programs behind it and apart from each other, and a program is at least as
\* long as bounce_buffer.
RoomOnDisk ==
  /\ Limit <= BLOCKS
  /\ \A i \in 6 .. 8 : Limit <= Layout[i].home
  /\ \A i, j \in 6 .. 8 :
       i # j => Extent(Layout[i].home, PROGRAM_SIZE)
                  \cap Extent(Layout[j].home, PROGRAM_SIZE) = {}
  /\ BOUNCE <= PROGRAM_SIZE

\* Paths lead through directories: only the last name may be that of a file.
ThroughDirectories ==
  \A path \in Paths :
    /\ path \in Seq({path[k] : k \in DOMAIN path})
    /\ \A k \in 1 .. Len(path) - 1 : \A i \in 6 .. 9 : path[k] # Layout[i].name

\* What the theorems are about; an uninitialised Sibling_Index is not beyond the
\* first entry, and no program writes to a file that has no blocks yet, see Wiped.
GemHypotheses ==
  RoomOnDisk /\ ThroughDirectories /\ Garbage \subseteq {0, 1} /\ ~WritesEmpty

----------------------------------------------------------------------------
(* Properties                                                              *)

Names == {Layout[c].name : c \in 1 .. Len(Layout)} \cup {"ROOT", ""}
Data == Names \cup Texts \cup {"zeros", "GEMH", "entry", "message", "junk"}

\* Every variable keeps its type: indexes are entries of the chain and block
\* numbers are inside the partition, whichever disk write the power fails after,
\* until a program writes to a file that has no blocks yet.
GemTypeOK ==
  /\ disk \in [Block -> [used : BOOLEAN, dir : BOOLEAN, start : Block,
                         size : 0 .. PROGRAM_SIZE, index : Nat, parent : Nat,
                         sibling : Nat, name : Names, data : Data]]
  /\ chain \in Seq(Block)
  /\ fbb \subseteq 0 .. BLOCKS - 1
  /\ pc \in {"off", "main", "reserve", "data", "find", "link", "blank",
             "sibling", "entry", "parent", "start", "home", "message",
             "serve", "hung", "wiped"}
  /\ at.call \in 1 .. Len(Layout) /\ at.free \in 0 .. LastEntry
  /\ at.start \in Block /\ at.block \in Block
  /\ made \in Seq(1 .. LastEntry)
  /\ fd \in {NotFound} \cup 0 .. LastEntry

IsFile(i) == LET e == ReadEntry(i) IN e.used /\ ~e.dir /\ e.size > 0
FileBlocks(i) ==
  IF IsFile(i) THEN Extent(ReadEntry(i).start, ReadEntry(i).size) ELSE {}
BlocksOf(i) == {GetEntryBlock(i)} \cup FileBlocks(i)

\* Whenever the power fails during GemFS_FormatPartition or a GemFS_WriteFile,
\* no block belongs to two entries or files, and
\* the blocks of the bitmap and of the boot sector belong to none.
NoSharedBlocks ==
  /\ \A i, j \in 1 .. LastEntry : i # j => BlocksOf(i) \cap BlocksOf(j) = {}
  /\ \A i \in 1 .. LastEntry : /\ BlocksOf(i) \cap 0 .. 5 = {}
                             /\ GetEntryBlock(i) \notin FileBlocks(i)

\* Whenever the power fails, the bitmap GemFS_FBB_SetBlock keeps on the disk has
\* every block in use
\* (the programs of the image excepted, which it never had).
UsedBlocksMarked ==
  \A i \in 1 .. LastEntry :
    /\ GetEntryBlock(i) \in fbb
    /\ IsFile(i) /\ ReadEntry(i).start \notin {Shell, Hello, ChudEdit}
         => FileBlocks(i) \subseteq fbb

Listed(i) ==
  IF ReadEntry(i).dir /\ ReadEntry(i).start # 0
  THEN LET child == Child(i)
       IN  {j \in {child[k] : k \in DOMAIN child} \ {NotFound} :
              ReadEntry(j).used}
  ELSE {}

\* The entries that a path of at most three names leads to.
Visible ==
  LET within[d \in 0 .. 3] ==
        IF d = 0 THEN {0}
        ELSE UNION {{i} \cup Listed(i) : i \in within[d - 1]}
  IN  within[3]

VisibleTree ==
  UNION {{[dir |-> i, name |-> ReadEntry(j).name, node |-> j] :
            j \in Listed(i)} : i \in Visible}

VisibleContents ==
  [i \in {j \in Visible : ~ReadEntry(j).dir} \ {0} |->
     [k \in 1 .. ReadEntry(i).size |-> disk[ReadEntry(i).start + k - 1].data]]

Tree == INSTANCE FileTree WITH
          Root <- 0, tree <- VisibleTree, contents <- VisibleContents

\* What paths lead to grows one name at a time, also across power failures,
\* and every file keeps what was last written to it and to no other, as long
\* as programs write to finished files only.
ImplementsFileTree == Tree!FTSpec

\* The kernel never follows a circle of siblings (GemFS_Find_Index_By_Name).
LookupsReturn == pc # "hung"

\* A path that exists is found (GemFS_Directory_to_Index).
OpenFinds ==
  io.op = "open" /\ io.node < 0 => Tree!Resolved(io.path) = {}

\* When programs run, everything GemFS_FormatPartition makes is there.
TreeComplete ==
  pc = "serve" =>
    \A c \in 1 .. Len(Layout) :
      \E link \in VisibleTree : link.name = Layout[c].name
=============================================================================
